---- MODULE Spec2Model ----
(***************************************************************************)
(* Kolibri ingest (v7): startup check, metadata index, discovery, per-file  *)
(* timestamp resolution, image and video processing with the skip log, the *)
(* worker pool, manifest de-duplication and ordering, the end-of-run       *)
(* report, and a further run on the same output directory; getTsMs on one *)
(* export record; the organizer script ingest-instagram-media.js with its  *)
(* pool and its output paths; and the worker pool of make-thumbs.js.       *)
(*                                                                         *)
(* Strings are sequences of one-character strings, so that the regular     *)
(* expressions and path functions of the program are computed character by *)
(* character.  Timestamps are counted in HOURS since 1970-01-01T00:00Z     *)
(* (one unit = 3 600 000 ms): every date the program synthesises or        *)
(* compares against (MIN_TS, MAX_TS, the folder date) is a whole number of *)
(* hours, and the millisecond values do not fit the checker's integers.    *)
(***************************************************************************)
EXTENDS Integers, Sequences, FiniteSets, TLC

VARIABLES
    pc,           \* position of main(): "start", "exit", "index", "scan", "pool", "running",
                  \* "dedupe", "report", "done"; of runPool: "jobs", "prime", "loop",
                  \* "fill", "finished";
                  \* of the task under study: "meta", "probe", "folder", "resolved"
    records,      \* history: the export records buildMetaIndex has indexed, in order
    byBase,       \* Map "filename.ext" -> [ts, caption]
    byNumericId,  \* Map "1791234..."   -> [ts, caption]
    indexed,      \* number of records buildMetaIndex has gone through
    hasFFPROBE,   \* result of hasBin("ffprobe")
    file,         \* the media file of the per-file task under study
    loc,          \* that task's locals: meta, ts after the filter, probeTs, folderTs, final ts
    diskFiles,    \* result of collectDiskMedia()
    limit,        \* CONCURRENCY
    nextIdx,      \* asyncPool: i
    active,       \* asyncPool: active
    taskPc,       \* per task: "idle", "running", "tools", "settled", "done";
                  \* per job of runPool: "idle", "running", "materialize", "settled", "done"
    items,        \* manifest entries accumulated by the tasks
    out,          \* the manifest written to media.json (<<>> until written)
    hasFFMPEG,    \* result of hasBin("ffmpeg")
    FORCE,        \* the --force flag
    tree,         \* the files walk() yields below the media roots, in walk order
    outFiles,     \* the files that exist below OUT_DIR, as paths relative to it
    skipLog,      \* the lines of ingest-skipped.log, each [reason, abs]
    taskResult,   \* history: per task, how its body ended
    reported,     \* the count printed as "Skipped files" (NULL until printed)
    exitCode,     \* NULL while the process runs, then its exit code
    runs,         \* history: the manifests written by earlier runs on the same OUT_DIR
    badFiles,     \* history: value of `indexed` at each metadata file that failed to parse
    changed,      \* make-thumbs.js: the flag `changed`
    thumbCalls,   \* history: per item of make-thumbs.js, the calls of thumbForItem on it
    parsed        \* history: the array make-thumbs.js parsed from media.json

\* what only make-thumbs.js touches
thumbVars == <<changed, thumbCalls, parsed>>

vars == <<pc, records, byBase, byNumericId, indexed, hasFFPROBE, file, loc,
          diskFiles, limit, nextIdx, active, taskPc, items, out,
          hasFFMPEG, thumbVars, FORCE, tree, outFiles, skipLog, taskResult, reported,
          exitCode, runs, badFiles>>

\* what the index and the timestamp resolution leave alone
runVars == <<hasFFMPEG, thumbVars, FORCE, tree, outFiles, skipLog, taskResult, reported,
             exitCode, runs>>

----------------------------------------------------------------------------
(* Bounds of the model *)

MaxRecords == 2     \* export records indexed in one run
MaxFiles == 2       \* media files discovered in one run
MaxBadFiles == 1    \* metadata files that fail to read or parse in one run
MaxReruns == 1      \* runs of the script after the first, on the same OUT_DIR
MaxConcurrency == 2 \* largest --concurrency of a run

----------------------------------------------------------------------------
(* Characters and strings *)

Digits == {"0","1","2","3","4","5","6","7","8","9"}
LowerLetters == {"a","b","c","d","e","f","g","h","i","j","k","l","m",
                 "n","o","p","q","r","s","t","u","v","w","x","y","z"}
UpperLetters == {"A","B","C","D","E","F","G","H","I","J","K","L","M",
                 "N","O","P","Q","R","S","T","U","V","W","X","Y","Z"}

\* Code-unit order of the characters the model uses (ASCII order).
CharOrder == <<" ", "-", ".", "/",
               "0","1","2","3","4","5","6","7","8","9",
               "A","B","C","D","E","F","G","H","I","J","K","L","M",
               "N","O","P","Q","R","S","T","U","V","W","X","Y","Z",
               "\\", "_",
               "a","b","c","d","e","f","g","h","i","j","k","l","m",
               "n","o","p","q","r","s","t","u","v","w","x","y","z", "|">>

CharCode(c) == CHOOSE i \in 1..Len(CharOrder) : CharOrder[i] = c

DigitValue(c) == CharCode(c) - CharCode("0")

\* String.prototype.toLowerCase on one character
LowerChar(c) ==
    IF c \in UpperLetters
    THEN CharOrder[CharCode(c) - CharCode("A") + CharCode("a")]
    ELSE c

toLowerCase(s) == [i \in 1..Len(s) |-> LowerChar(s[i])]

\* s < t in code-unit (lexicographic) order
StrLess(s, t) ==
    \E k \in 1..(Len(t)) :
        /\ k <= Len(s) + 1
        /\ \A j \in 1..(k-1) : s[j] = t[j]
        /\ \/ k = Len(s) + 1
           \/ (k <= Len(s) /\ CharCode(s[k]) < CharCode(t[k]))

\* Number("0123") for a string of decimal digits
RECURSIVE NumberOf(_)
NumberOf(s) ==
    IF Len(s) = 0 THEN 0
    ELSE 10 * NumberOf(SubSeq(s, 1, Len(s) - 1)) + DigitValue(s[Len(s)])

\* index of the last occurrence of character c in s, 0 when absent
LastIndexOf(s, c) ==
    LET hits == {i \in 1..Len(s) : s[i] = c}
    IN  IF hits = {} THEN 0 ELSE CHOOSE i \in hits : \A j \in hits : j <= i

\* path.basename (POSIX): what follows the last "/"
basename(p) == SubSeq(p, LastIndexOf(p, "/") + 1, Len(p))

\* path.extname of a basename: from its last "." on, "" when there is none or
\* when the only "." is its first character
extname(p) ==
    LET b == basename(p)
        d == LastIndexOf(b, ".")
    IN  IF d <= 1 THEN <<>> ELSE SubSeq(b, d, Len(b))

\* path.parse(base).name: the basename without its extension
stemOf(base) == SubSeq(base, 1, Len(base) - Len(extname(base)))

----------------------------------------------------------------------------
(* Dates *)

\* Days from 1970-01-01 to the civil date y-m-d (m in 1..12), proleptic Gregorian
DaysFromCivil(y, m, d) ==
    LET yy  == IF m <= 2 THEN y - 1 ELSE y
        era == yy \div 400
        yoe == yy - era * 400
        mp  == IF m > 2 THEN m - 3 ELSE m + 9
        doy == (153 * mp + 2) \div 5 + d - 1
        doe == yoe * 365 + yoe \div 4 - yoe \div 100 + doy
    IN  era * 146097 + doe - 719468

\* Date.UTC(year, monthIndex, day, hours, 0, 0) in hours: a monthIndex outside
\* 0..11 carries into the year, as MakeDay does
DateUTC(y, mo, d, h) ==
    DaysFromCivil(y + (mo \div 12), (mo % 12) + 1, d) * 24 + h

\* The UTC calendar fields of a timestamp (getUTCFullYear, getUTCMonth()+1,
\* getUTCDate, getUTCHours)
CivilOf(t) ==
    LET z   == (t \div 24) + 719468
        era == z \div 146097
        doe == z - era * 146097
        yoe == (doe - doe \div 1460 + doe \div 36524 - doe \div 146096) \div 365
        doy == doe - (365 * yoe + yoe \div 4 - yoe \div 100)
        mp  == (5 * doy + 2) \div 153
        m   == IF mp < 10 THEN mp + 3 ELSE mp - 9
    IN  [year  |-> (yoe + era * 400) + (IF m <= 2 THEN 1 ELSE 0),
         month |-> m,
         day   |-> doy - (153 * mp + 2) \div 5 + 1,
         hour  |-> t % 24]

\* JavaScript null (and a non-finite number) as a timestamp
NULL == -1

\* Date.now() of the run
NOW == DateUTC(2026, 10, 4, 9)
MIN_TS == DateUTC(2010, 0, 1, 0)
MAX_TS == NOW + 3 * 24

\* Number.isFinite(t) && t >= MIN_TS && t <= MAX_TS
plausible_NoUpperBound(t) == t # NULL /\ t >= MIN_TS

plausible(t) == t # NULL /\ t >= MIN_TS /\ t <= MAX_TS

----------------------------------------------------------------------------
(* File names of the model *)

DotJpg == <<".","j","p","g">>
DotMp4 == <<".","m","p","4">>
Run10 == <<"1","7","8","4","1","0","0","0","0","1">>          \* 10 digits
Run11 == <<"1","7","9","9","9","0","0","0","0","2","3">>      \* 11 digits
Run9  == <<"1","2","3","4","5","6","7","8","9">>              \* 9 digits

BaseA == <<"a">> \o Run10 \o DotJpg
BaseB == <<"b">> \o Run10 \o DotJpg
BaseD == <<"d">> \o Run11 \o DotJpg
BaseX == <<"x">> \o Run11 \o <<"_">> \o Run10 \o DotMp4
BaseC == <<"c">> \o Run9 \o DotMp4
BaseE == <<"e",".","J","P","G">>

\* basenames the export records refer to
MetaBases == {BaseA, BaseB, BaseD}

IMAGE_EXTS == {DotJpg, <<".","j","p","e","g">>, <<".","p","n","g">>, <<".","w","e","b","p">>}
VIDEO_EXTS == {DotMp4, <<".","m","o","v">>, <<".","m","4","v">>, <<".","w","e","b","m">>}

isImage(p) == toLowerCase(extname(p)) \in IMAGE_EXTS
isVideo(p) == toLowerCase(extname(p)) \in VIDEO_EXTS

----------------------------------------------------------------------------
(* extractNumericTokens: name.match(/\d{10,}/g) || [] *)

TokenMinLen == 10

\* last index of the run of digits that starts at i
RECURSIVE RunEnd(_, _)
RunEnd(name, i) ==
    IF i < Len(name) /\ name[i + 1] \in Digits THEN RunEnd(name, i + 1) ELSE i

RECURSIVE TokensFrom(_, _)
TokensFrom(name, i) ==
    IF i > Len(name) THEN <<>>
    ELSE IF name[i] \notin Digits THEN TokensFrom(name, i + 1)
    ELSE LET j == RunEnd(name, i)
         IN  (IF j - i + 1 >= TokenMinLen THEN <<SubSeq(name, i, j)>> ELSE <<>>)
             \o TokensFrom(name, j + 1)

extractNumericTokens(name) == TokensFrom(name, 1)

Range(s) == {s[i] : i \in 1..Len(s)}

----------------------------------------------------------------------------
(* buildMetaIndex *)

EmptyMap == [k \in {} |-> NULL]

\* Map.set(key, val) for every key of `keys` that the map does not have yet
SetIfAbsent_Overwrite(m, keys, val) ==
    [k \in (DOMAIN m) \cup keys |-> IF k \in keys THEN val ELSE m[k]]

SetIfAbsent(m, keys, val) ==
    [k \in (DOMAIN m) \cup keys |-> IF k \in DOMAIN m THEN m[k] ELSE val]

\* the tokens of every basename a record refers to
TokensOfUris(uris) == UNION {Range(extractNumericTokens(b)) : b \in uris}

\* An export record after getTsMs, getCaption and collectUrisDeep: the timestamp
\* (NULL when no candidate field gave one), the caption, the set of basenames
Timestamps == {NULL, 0, DateUTC(2021, 5, 1, 10), DateUTC(2023, 10, 14, 22)}
Captions == {"", "sunset"}
RecordPool == [ts : Timestamps, caption : Captions, uris : SUBSET MetaBases]
PlainRecordPool == {r \in RecordPool : r.caption = "" /\ r.uris # {}}

\* one iteration of `for(const rec of records)`: every basename of the record,
\* and every token of those basenames, is set unless the map has it already;
\* all of them get the record's { ts, caption }
IndexStep(rec) ==
    LET val == [ts |-> rec.ts, caption |-> rec.caption]
    IN  /\ byBase' = SetIfAbsent(byBase, rec.uris, val)
        /\ byNumericId' = SetIfAbsent(byNumericId, TokensOfUris(rec.uris), val)
        /\ indexed' = indexed + 1

\* the task's `meta`: null, or the { ts, caption } object of an index entry
NoMeta == [found |-> FALSE, ts |-> NULL, caption |-> ""]
MetaOf(entry) == [found |-> TRUE, ts |-> entry.ts, caption |-> entry.caption]

IdleTask == [meta |-> NoMeta, ts |-> NULL, probeTs |-> NULL, folderTs |-> NULL,
             probed |-> FALSE, final |-> NULL]
NoFile == [abs |-> <<>>, content |-> "", mtimeMs |-> NULL, probeOut |-> NULL]

InitCommon ==
    /\ records = <<>>
    /\ byBase = EmptyMap
    /\ byNumericId = EmptyMap
    /\ indexed = 0
    /\ hasFFPROBE \in BOOLEAN
    /\ file = NoFile
    /\ loc = IdleTask
    /\ diskFiles = <<>>
    /\ nextIdx = 0
    /\ active = 0
    /\ taskPc = <<>>
    /\ items = <<>>
    /\ out = <<>>
    /\ outFiles = {}
    /\ skipLog = <<>>
    /\ taskResult = <<>>
    /\ reported = NULL
    /\ exitCode = NULL
    /\ runs = <<>>
    /\ badFiles = <<>>
    /\ changed = FALSE
    /\ thumbCalls = <<>>
    /\ parsed = <<>>

\* main() past its startup check, on an export without media files
InitPastStartup == InitCommon /\ hasFFMPEG = TRUE /\ FORCE = FALSE /\ tree = <<>>

----------------------------------------------------------------------------
(* SpecIndex: buildMetaIndex over any sequence of records *)

InitIndex == pc = "index" /\ InitPastStartup /\ hasFFPROBE = TRUE /\ limit = 1

IndexRecordLogged ==
    /\ pc = "index"
    /\ indexed < MaxRecords
    /\ \E rec \in RecordPool :
          /\ IndexStep(rec)
          /\ records' = Append(records, rec)
    /\ UNCHANGED <<pc, hasFFPROBE, file, loc, diskFiles, limit, nextIdx, active,
                   taskPc, items, out>>
    /\ UNCHANGED <<runVars, badFiles>>

\* buildMetaIndex returns { byBase, byNumericId }
IndexReturn ==
    /\ pc = "index"
    /\ pc' = "scan"
    /\ UNCHANGED <<records, byBase, byNumericId, indexed, hasFFPROBE, file, loc,
                   diskFiles, limit, nextIdx, active, taskPc, items, out>>
    /\ UNCHANGED <<runVars, badFiles>>

NextIndex == IndexRecordLogged \/ IndexReturn

SpecIndex == InitIndex /\ [][NextIndex]_vars

\* the earliest indexed record that refers to basename b / to token t
FirstRefBase(b) ==
    CHOOSE i \in 1..Len(records) :
        /\ b \in records[i].uris
        /\ \A j \in 1..(i - 1) : b \notin records[j].uris
FirstRefToken(t) ==
    CHOOSE i \in 1..Len(records) :
        /\ t \in TokensOfUris(records[i].uris)
        /\ \A j \in 1..(i - 1) : t \notin TokensOfUris(records[j].uris)
ValueOf(i) == [ts |-> records[i].ts, caption |-> records[i].caption]

\* C8: every key of the basename index and of the numeric-token index maps to
\* the timestamp and caption of the earliest indexed record that referenced
\* it (first seen wins: a later record never overwrites it), and the keys are
\* exactly the referenced basenames and tokens.
C8_FirstSeenWins ==
    /\ DOMAIN byBase = UNION {records[i].uris : i \in 1..Len(records)}
    /\ DOMAIN byNumericId = UNION {TokensOfUris(records[i].uris) : i \in 1..Len(records)}
    /\ \A b \in DOMAIN byBase : byBase[b] = ValueOf(FirstRefBase(b))
    /\ \A t \in DOMAIN byNumericId : byNumericId[t] = ValueOf(FirstRefToken(t))

\* C8 witness: two records with different values refer to the same token through
\* different basenames, and the index holds the first record's value for it
C8_Witness ==
    /\ Len(records) = 2
    /\ records[1].uris = {BaseA} /\ records[2].uris = {BaseB}
    /\ ValueOf(1) # ValueOf(2)
    /\ records[1].ts # records[2].ts /\ records[1].caption # records[2].caption
    /\ byNumericId[Run10] = ValueOf(1)
    /\ byBase[BaseB] = ValueOf(2)

----------------------------------------------------------------------------
(* tsFromFolder *)

\* absPath.replace(/\\/g, "/")
SlashPath(p) == [i \in 1..Len(p) |-> IF p[i] = "\\" THEN "/" ELSE p[i]]

Str_media == <<"/","m","e","d","i","a","/">>
Str_posts == <<"p","o","s","t","s">>
Str_reels == <<"r","e","e","l","s">>

\* /\/media\/(posts|reels)\/(20\d{2})(\d{2})\// matches p at position i
FolderMatchAt(p, i) ==
    /\ i + 19 <= Len(p)
    /\ SubSeq(p, i, i + 6) = Str_media
    /\ SubSeq(p, i + 7, i + 11) \in {Str_posts, Str_reels}
    /\ p[i + 12] = "/"
    /\ p[i + 13] = "2" /\ p[i + 14] = "0"
    /\ \A k \in (i + 15)..(i + 18) : p[k] \in Digits
    /\ p[i + 19] = "/"

\* position of the leftmost match, 0 when there is none
FolderMatch(absPath) ==
    LET p == SlashPath(absPath)
        hits == {i \in 1..Len(p) : FolderMatchAt(p, i)}
    IN  IF hits = {} THEN 0 ELSE CHOOSE i \in hits : \A j \in hits : i <= j

\* the captured groups m[2] and m[3]
FolderYear(absPath) ==
    LET i == FolderMatch(absPath) IN SubSeq(SlashPath(absPath), i + 13, i + 16)
FolderMonth(absPath) ==
    LET i == FolderMatch(absPath) IN SubSeq(SlashPath(absPath), i + 17, i + 18)

tsFromFolder(absPath) ==
    IF FolderMatch(absPath) = 0 THEN NULL
    ELSE LET y  == NumberOf(FolderYear(absPath))
             mo == NumberOf(FolderMonth(absPath)) - 1
         IN  DateUTC(y, mo, 15, 12)

----------------------------------------------------------------------------
(* The per-file task: timestamp resolution *)

\* the first token, in order of appearance, that byNumericId has; <<>> when none
FirstIndexedToken_Last(toks) ==
    LET hits == {i \in 1..Len(toks) : toks[i] \in DOMAIN byNumericId}
    IN  IF hits = {} THEN <<>>
        ELSE toks[CHOOSE i \in hits : \A j \in hits : j <= i]

FirstIndexedToken(toks) ==
    LET hits == {i \in 1..Len(toks) : toks[i] \in DOMAIN byNumericId}
    IN  IF hits = {} THEN <<>>
        ELSE toks[CHOOSE i \in hits : \A j \in hits : i <= j]

\* let meta = byBase.get(base) || null; if(!meta){ for(tok of tokens) ... break }
FuzzyLookup(base) ==
    LET tok == FirstIndexedToken(extractNumericTokens(base))
    IN  IF tok = <<>> THEN NoMeta ELSE MetaOf(byNumericId[tok])

MetaLookup_TokenFirst(base) ==
    IF FuzzyLookup(base).found THEN FuzzyLookup(base)
    ELSE IF base \in DOMAIN byBase THEN MetaOf(byBase[base]) ELSE NoMeta

MetaLookup(base) ==
    IF base \in DOMAIN byBase THEN MetaOf(byBase[base]) ELSE FuzzyLookup(base)

\* if(!plausible(t)) t = null
FilterTs(t) == IF plausible(t) THEN t ELSE NULL

\* !ts of a number or null
Falsy(t) == t = NULL \/ t = 0

\* the guard of the container probe
ProbeWanted(ts, abs) == Falsy(ts) /\ isVideo(abs) /\ hasFFPROBE

\* ts ?? probeTs ?? folderTs ?? stat.mtimeMs
Coalesce_SkipFolder(ts, probeTs, folderTs, mtimeMs) ==
    IF ts # NULL THEN ts
    ELSE IF probeTs # NULL THEN probeTs
    ELSE mtimeMs

Coalesce_FilterMtime(ts, probeTs, folderTs, mtimeMs) ==
    IF ts # NULL THEN ts
    ELSE IF probeTs # NULL THEN probeTs
    ELSE IF folderTs # NULL THEN folderTs
    ELSE FilterTs(mtimeMs)

Coalesce(ts, probeTs, folderTs, mtimeMs) ==
    IF ts # NULL THEN ts
    ELSE IF probeTs # NULL THEN probeTs
    ELSE IF folderTs # NULL THEN folderTs
    ELSE mtimeMs

----------------------------------------------------------------------------
(* Media files of the model *)

Dir_posts_202305 == <<"/","e">> \o Str_media \o Str_posts \o <<"/","2","0","2","3","0","5","/">>
Dir_reels_202305 == <<"/","e">> \o Str_media \o Str_reels \o <<"/","2","0","2","3","0","5","/">>
Dir_reels_202013 == <<"/","e">> \o Str_media \o Str_reels \o <<"/","2","0","2","0","1","3","/">>
Dir_posts_202000 == <<"/","e">> \o Str_media \o Str_posts \o <<"/","2","0","2","0","0","0","/">>
Dir_posts_209912 == <<"/","e">> \o Str_media \o Str_posts \o <<"/","2","0","9","9","1","2","/">>
Dir_reels_209912 == <<"/","e">> \o Str_media \o Str_reels \o <<"/","2","0","9","9","1","2","/">>
Dir_other        == <<"/","e">> \o Str_media \o <<"o","t","h","e","r","/">>

ImagePaths == {Dir_posts_202305 \o BaseA, Dir_other \o BaseB, Dir_posts_202000 \o BaseB,
               Dir_posts_209912 \o BaseE, Dir_other \o BaseE}
VideoPaths == {Dir_reels_202305 \o BaseX, Dir_reels_209912 \o BaseX,
               Dir_reels_202013 \o BaseC, Dir_other \o BaseC}

\* stat.mtimeMs: any time, plausible or not
Mtimes == {DateUTC(2024, 2, 3, 4), DateUTC(1999, 0, 1, 0)}
\* what ffprobe answers for a video: no creation_time tag, a date, a bogus date
ProbeOutputs == {NULL, DateUTC(2022, 7, 8, 9), DateUTC(2001, 0, 1, 0)}

FilePool ==
    [abs : ImagePaths, content : {"k1"}, mtimeMs : Mtimes, probeOut : {NULL}]
    \cup [abs : VideoPaths, content : {"k1"}, mtimeMs : Mtimes, probeOut : ProbeOutputs]

----------------------------------------------------------------------------
(* SpecResolve: buildMetaIndex, then the timestamp resolution of one task *)

InitResolve == pc = "index" /\ InitPastStartup /\ limit = 1

\* buildMetaIndex(), not awaited: the loop goes on while main() does
IndexRecord_NotAwaited ==
    /\ indexed < MaxRecords
    /\ \E rec \in PlainRecordPool : IndexStep(rec)
    /\ UNCHANGED <<pc, records, hasFFPROBE, file, loc, diskFiles, limit, nextIdx,
                   active, taskPc, items, out>>
    /\ UNCHANGED <<runVars, badFiles>>

IndexRecord ==
    /\ pc = "index"
    /\ indexed < MaxRecords
    /\ \E rec \in PlainRecordPool : IndexStep(rec)
    /\ UNCHANGED <<pc, records, hasFFPROBE, file, loc, diskFiles, limit, nextIdx,
                   active, taskPc, items, out>>
    /\ UNCHANGED <<runVars, badFiles>>

\* a task built by diskFiles.map(abs => async () => ...) starts on its file
TaskStart ==
    /\ pc = "scan"
    /\ \E f \in FilePool : file' = f
    /\ loc' = IdleTask
    /\ pc' = "meta"
    /\ UNCHANGED <<records, byBase, byNumericId, indexed, hasFFPROBE, diskFiles,
                   limit, nextIdx, active, taskPc, items, out>>
    /\ UNCHANGED <<runVars, badFiles>>

\* meta lookup, stat, let ts = meta?.ts ?? null; if(!plausible(ts)) ts = null
TaskMeta ==
    /\ pc = "meta"
    /\ LET meta == MetaLookup(basename(file.abs))
       IN  loc' = [loc EXCEPT !.meta = meta, !.ts = FilterTs(meta.ts)]
    /\ pc' = "probe"
    /\ UNCHANGED <<records, byBase, byNumericId, indexed, hasFFPROBE, file,
                   diskFiles, limit, nextIdx, active, taskPc, items, out>>
    /\ UNCHANGED <<runVars, badFiles>>

\* if(!ts && isVideo(abs) && hasFFPROBE){ probeTs = await ffprobeCreationTime(abs); filter }
TaskProbe ==
    /\ pc = "probe"
    /\ loc' = IF ProbeWanted(loc.ts, file.abs)
              THEN [loc EXCEPT !.probeTs = FilterTs(file.probeOut), !.probed = TRUE]
              ELSE loc
    /\ pc' = "folder"
    /\ UNCHANGED <<records, byBase, byNumericId, indexed, hasFFPROBE, file,
                   diskFiles, limit, nextIdx, active, taskPc, items, out>>
    /\ UNCHANGED <<runVars, badFiles>>

\* folderTs, its filter, and ts = ts ?? probeTs ?? folderTs ?? stat.mtimeMs
TaskFolder ==
    /\ pc = "folder"
    /\ LET folderTs == FilterTs(tsFromFolder(file.abs))
       IN  loc' = [loc EXCEPT !.folderTs = folderTs,
                              !.final = Coalesce(loc.ts, loc.probeTs, folderTs, file.mtimeMs)]
    /\ pc' = "resolved"
    /\ UNCHANGED <<records, byBase, byNumericId, indexed, hasFFPROBE, file,
                   diskFiles, limit, nextIdx, active, taskPc, items, out>>
    /\ UNCHANGED <<runVars, badFiles>>

\* catch(e){ if(DEBUG) console.warn(...); }: the loop over the files goes on
CatchParseFail_Rethrow == "aborted"

CatchParseFail == "index"

\* a metadata file that cannot be read, or whose content JSON.parse rejects:
\* the exception leaves the try block before any record of the file is indexed
IndexBadFile ==
    /\ pc = "index"
    /\ Len(badFiles) < MaxBadFiles
    /\ badFiles' = Append(badFiles, indexed)
    /\ pc' = CatchParseFail
    /\ UNCHANGED <<records, byBase, byNumericId, indexed, hasFFPROBE, file, loc,
                   diskFiles, limit, nextIdx, active, taskPc, items, out, runVars>>

NextResolve ==
    \/ IndexRecord
    \/ IndexBadFile
    \/ IndexReturn
    \/ TaskStart
    \/ TaskMeta
    \/ TaskProbe
    \/ TaskFolder

SpecResolve == InitResolve /\ [][NextResolve]_vars

----------------------------------------------------------------------------
(* Claims about the timestamp resolution (SpecResolve) *)

\* What each stage of the cascade yields for the task's file, stage by stage
StageBase ==
    LET base == basename(file.abs)
    IN  IF base \in DOMAIN byBase THEN byBase[base].ts ELSE NULL

MatchingTokens ==
    LET toks == extractNumericTokens(basename(file.abs))
    IN  {i \in 1..Len(toks) : toks[i] \in DOMAIN byNumericId}

StageFuzzy ==
    LET toks == extractNumericTokens(basename(file.abs))
    IN  IF MatchingTokens = {} THEN NULL
        ELSE byNumericId[toks[CHOOSE i \in MatchingTokens :
                                 \A j \in MatchingTokens : i <= j]].ts

StageProbe == IF isVideo(file.abs) /\ hasFFPROBE THEN file.probeOut ELSE NULL

StageFolder == tsFromFolder(file.abs)

\* finite and within [2010-01-01T00:00:00Z, now + 3 days]
InWindow(t) == t # NULL /\ t >= DateUTC(2010, 0, 1, 0) /\ t <= NOW + 3 * 24

FirstInWindow(stages, fallback) ==
    LET ok == {i \in 1..Len(stages) : InWindow(stages[i])}
    IN  IF ok = {} THEN fallback
        ELSE stages[CHOOSE i \in ok : \A j \in ok : i <= j]

\* C1: the resolved timestamp is the value of the first stage, in the order
\* [exact basename, fuzzy numeric token, container probe, folder date], whose
\* value is plausible, and the mtime when no stage is plausible; an implausible
\* or missing value of one stage never keeps the later stages from being tried.
C1_CascadeFirstPlausible ==
    pc = "resolved" =>
        loc.final = FirstInWindow(<<StageBase, StageFuzzy, StageProbe, StageFolder>>,
                                  file.mtimeMs)

\* C2: a timestamp that is 0, before 2010-01-01 or after now + 3 days is never
\* the resolved timestamp unless it came from the mtime fallback, which is
\* taken only when the task kept no candidate of any earlier stage.
C2_ImplausibleOnlyFromMtime ==
    pc = "resolved" =>
        \/ InWindow(loc.final)
        \/ /\ loc.ts = NULL /\ loc.probeTs = NULL /\ loc.folderTs = NULL
           /\ loc.final = file.mtimeMs

\* C2 witness: the token entry holds 0, the probe answers a bogus date, the
\* folder date lies in the future; all three are rejected and the task resolves
\* to a plausible mtime
C2_Witness ==
    /\ pc = "resolved"
    /\ StageBase = NULL /\ StageFuzzy = 0
    /\ loc.probed /\ file.probeOut # NULL /\ ~InWindow(file.probeOut)
    /\ StageFolder # NULL /\ ~InWindow(StageFolder)
    /\ loc.final = file.mtimeMs /\ InWindow(loc.final)

\* C3 as stated: for a file whose basename has an entry in the basename index,
\* the resolved timestamp equals the timestamp stored in that entry.
C3_BasenameEntryWins ==
    (pc = "resolved" /\ basename(file.abs) \in DOMAIN byBase) =>
        loc.final = byBase[basename(file.abs)].ts

\* C3 amended: for a file whose basename has an entry in the basename index
\* with a plausible timestamp, the resolved timestamp equals that timestamp,
\* whatever folder the file is in.
C3_PlausibleBasenameEntryWins ==
    (/\ pc = "resolved"
     /\ basename(file.abs) \in DOMAIN byBase
     /\ InWindow(byBase[basename(file.abs)].ts)) =>
        loc.final = byBase[basename(file.abs)].ts

\* C3 witness: the basename entry wins over a different token entry and over a
\* plausible folder date
C3_Witness ==
    /\ pc = "resolved"
    /\ InWindow(StageBase) /\ InWindow(StageFuzzy) /\ InWindow(StageFolder)
    /\ StageBase # StageFuzzy /\ StageBase # StageFolder
    /\ loc.final = StageBase

\* C4 as stated: for a file with no basename entry whose basename has a run of
\* at least 10 digits that is a key of the token index, the resolved timestamp
\* equals the timestamp stored for the first such token, left to right.
C4_FirstTokenWins ==
    (/\ pc = "resolved"
     /\ basename(file.abs) \notin DOMAIN byBase
     /\ MatchingTokens # {}) =>
        loc.final = StageFuzzy

\* C4 amended: ... the resolved timestamp equals the timestamp stored for the
\* first such token, provided that timestamp is plausible.
C4_PlausibleFirstTokenWins ==
    (/\ pc = "resolved"
     /\ basename(file.abs) \notin DOMAIN byBase
     /\ MatchingTokens # {}
     /\ InWindow(StageFuzzy)) =>
        loc.final = StageFuzzy

\* C4 witness: both tokens of the basename are keys with different plausible
\* timestamps, and the file resolves to that of the leftmost
C4_Witness ==
    /\ pc = "resolved"
    /\ basename(file.abs) = BaseX
    /\ Cardinality(MatchingTokens) = 2
    /\ InWindow(byNumericId[Run11].ts) /\ InWindow(byNumericId[Run10].ts)
    /\ byNumericId[Run11].ts # byNumericId[Run10].ts
    /\ loc.final = byNumericId[Run11].ts

NoMetaMatch == basename(file.abs) \notin DOMAIN byBase /\ MatchingTokens = {}

\* C5 as stated: for a file (image or video) with neither a basename nor a
\* token match, the resolved timestamp is the folder-derived date when the path
\* matches media/<posts|reels>/<YYYY><MM>/, and the mtime otherwise.
C5_FolderElseMtime ==
    (pc = "resolved" /\ NoMetaMatch) =>
        loc.final = (IF FolderMatch(file.abs) # 0 THEN tsFromFolder(file.abs)
                     ELSE file.mtimeMs)

\* C5 amended: for a file with neither match for which the container probe
\* gives no plausible timestamp, the resolved timestamp is the folder-derived
\* date when the path matches the pattern and that date is plausible, and the
\* mtime otherwise.
C5_FolderElseMtimeAfterProbe ==
    (pc = "resolved" /\ NoMetaMatch /\ ~InWindow(StageProbe)) =>
        loc.final = (IF FolderMatch(file.abs) # 0 /\ InWindow(tsFromFolder(file.abs))
                     THEN tsFromFolder(file.abs)
                     ELSE file.mtimeMs)

\* C5 witness: a video without any match, probed with a bogus answer, in a
\* dated folder, resolves to the folder date
C5_Witness ==
    /\ pc = "resolved" /\ NoMetaMatch
    /\ isVideo(file.abs) /\ loc.probed /\ ~InWindow(file.probeOut)
    /\ FolderMatch(file.abs) # 0
    /\ loc.final = tsFromFolder(file.abs) /\ loc.final # file.mtimeMs

\* C6: whenever tsFromFolder matches a <YYYY><MM> folder segment, the returned
\* timestamp is noon UTC on day 15 of that year YYYY and that month MM.
C6_FolderDateSameMonth ==
    (pc = "resolved" /\ FolderMatch(file.abs) # 0) =>
        LET c == CivilOf(tsFromFolder(file.abs))
        IN  /\ c.year = NumberOf(FolderYear(file.abs))
            /\ c.month = NumberOf(FolderMonth(file.abs))
            /\ c.day = 15
            /\ c.hour = 12

\* C7: resolution always produces a timestamp, and when no stage yields a
\* plausible value it is the file's mtime as it is, plausible or not.
C7_MtimeUnfiltered ==
    pc = "resolved" =>
        /\ loc.final # NULL
        /\ (~InWindow(StageBase) /\ ~InWindow(StageFuzzy)
            /\ ~InWindow(StageProbe) /\ ~InWindow(StageFolder))
              => loc.final = file.mtimeMs

\* C7 witness: an implausible mtime is the resolved timestamp
C7_Witness ==
    /\ pc = "resolved"
    /\ ~InWindow(StageBase) /\ ~InWindow(StageFuzzy)
    /\ ~InWindow(StageProbe) /\ ~InWindow(StageFolder)
    /\ ~InWindow(file.mtimeMs)
    /\ loc.final = file.mtimeMs

----------------------------------------------------------------------------
(* The per-file task: identifier and manifest entry *)

WordChars == LowerLetters \cup UpperLetters \cup Digits \cup {"_"}
SlugKept(c) == c \in WordChars \cup {" ", "-"}

\* String.prototype.trim, for the blank the model uses
RECURSIVE trim(_)
trim(s) ==
    IF Len(s) = 0 THEN s
    ELSE IF s[1] = " " THEN trim(Tail(s))
    ELSE IF s[Len(s)] = " " THEN trim(SubSeq(s, 1, Len(s) - 1))
    ELSE s

\* replace(/\s+/g, "-")
RECURSIVE DashSpaces(_)
DashSpaces(s) ==
    IF Len(s) = 0 THEN s
    ELSE IF s[1] # " " THEN <<s[1]>> \o DashSpaces(Tail(s))
    ELSE IF Len(s) > 1 /\ s[2] = " " THEN DashSpaces(Tail(s))
    ELSE <<"-">> \o DashSpaces(Tail(s))

\* slugify, on names of ASCII characters (which NFKD leaves alone)
slugify(s) == toLowerCase(DashSpaces(trim(SelectSeq(s, SlugKept))))

\* hashFile(p, 8): the first 8 hex digits of the SHA-1 of the content; the
\* digest is a fixed table over the contents of the model
hashFile(f) ==
    CASE f.content = "k1" -> <<"3","f","a","9","1","c","0","7">>
      [] f.content = "k2" -> <<"b","2","0","e","5","5","d","1">>

\* const id = `${slugify(stem)}-${hash}`
IdOf(f) == slugify(stemOf(basename(f.abs))) \o <<"-">> \o hashFile(f)

Type_image == <<"i","m","a","g","e">>
Type_video == <<"v","i","d","e","o">>
ImgFullDir == <<"a","s","s","e","t","s","/","m","e","d","i","a","/","i","m","g","/","f","u","l","l","/">>
ImgThumbDir == <<"a","s","s","e","t","s","/","m","e","d","i","a","/","i","m","g","/","t","h","u","m","b","s","/">>
VidDir == <<"a","s","s","e","t","s","/","m","e","d","i","a","/","v","i","d","e","o","/","7","2","0","p","/">>
VidPosters == <<"a","s","s","e","t","s","/","m","e","d","i","a","/","v","i","d","e","o","/","p","o","s","t","e","r","s","/">>
DotWebp == <<".","w","e","b","p">>

\* the whole timestamp resolution of a task, lines 387-408
ResolveTs(f) ==
    LET meta     == MetaLookup(basename(f.abs))
        ts       == FilterTs(meta.ts)
        probeTs  == IF ProbeWanted(ts, f.abs) THEN FilterTs(f.probeOut) ELSE NULL
        folderTs == FilterTs(tsFromFolder(f.abs))
    IN  Coalesce(ts, probeTs, folderTs, f.mtimeMs)

\* the entry a task pushes after processImage / processVideo returned true
ItemOf(f) ==
    LET id == IdOf(f)
        caption == MetaLookup(basename(f.abs)).caption
    IN  IF isImage(f.abs)
        THEN [id |-> id, type |-> Type_image,
              src |-> ImgFullDir \o id \o DotWebp,
              thumb |-> ImgThumbDir \o id \o DotWebp,
              ts |-> ResolveTs(f), caption |-> caption, hidden |-> FALSE]
        ELSE [id |-> id, type |-> Type_video,
              src |-> VidDir \o id \o DotMp4,
              thumb |-> VidPosters \o id \o DotJpg,
              ts |-> ResolveTs(f), caption |-> caption, hidden |-> FALSE]

----------------------------------------------------------------------------
(* De-duplication and ordering of the manifest *)

\* const key = it.type + "|" + it.src
KeyOf(it) == it.type \o <<"|">> \o it.src

\* for(const it of items){ if(seen.has(key)) continue; seen.add(key); out.push(it); }
Dedupe_KeepLast(its) ==
    LET keep == {i \in 1..Len(its) :
                    \A j \in (i+1)..Len(its) : KeyOf(its[j]) # KeyOf(its[i])}
        F[i \in 0..Len(its)] ==
            IF i = 0 THEN <<>>
            ELSE IF i \in keep THEN Append(F[i-1], its[i]) ELSE F[i-1]
    IN  F[Len(its)]

RECURSIVE DedupeFrom(_, _, _)
DedupeFrom(its, seen, acc) ==
    IF Len(its) = 0 THEN acc
    ELSE LET key == KeyOf(Head(its))
         IN  IF key \in seen THEN DedupeFrom(Tail(its), seen, acc)
             ELSE DedupeFrom(Tail(its), seen \cup {key}, Append(acc, Head(its)))

Dedupe(its) == DedupeFrom(its, {}, <<>>)

\* it.ts || 0
OrZero(t) == IF Falsy(t) THEN 0 ELSE t

\* the comparator (a,b) => (b.ts||0) - (a.ts||0)
CompareTs(a, b) == OrZero(b.ts) - OrZero(a.ts)

\* Array.prototype.sort is stable: x goes after every element that does not
\* compare after it
RECURSIVE InsertSorted(_, _)
InsertSorted(s, x) ==
    IF Len(s) = 0 THEN <<x>>
    ELSE IF CompareTs(Head(s), x) <= 0 THEN <<Head(s)>> \o InsertSorted(Tail(s), x)
    ELSE <<x>> \o s

RECURSIVE SortByTs(_)
SortByTs(s) ==
    IF Len(s) = 0 THEN <<>>
    ELSE InsertSorted(SortByTs(SubSeq(s, 1, Len(s) - 1)), s[Len(s)])

\* out = de-duplicated items, sorted, as written to media.json
Manifest(its) == SortByTs(Dedupe(its))

----------------------------------------------------------------------------
(* processImage and processVideo.  What sharp, ffmpeg and ffprobe do to a   *)
(* file is not the program's to decide: every invocation either succeeds or *)
(* fails, and the processors are computed over every combination.  Writes   *)
(* below OUT_DIR that are not the product of such a tool (the skip log, the *)
(* manifest) succeed: main() created the output directories before.        *)

\* outFull / outMp4 and outThumb / outPoster of a file, relative to OUT_DIR
OutMain(f) == ItemOf(f).src
OutThumb(f) == ItemOf(f).thumb

\* if(!FORCE && fs.existsSync(out1) && fs.existsSync(out2)) return true;
Cached_Never(f, force, files) == FALSE

Cached(f, force, files) == ~force /\ OutMain(f) \in files /\ OutThumb(f) \in files

\* how a task body ended: the step that made the task promise reject ("" when
\* it did not), whether the processor ran its tools, its return value, the
\* stage that produced the main output, the files it wrote, the lines it
\* handed to logSkip, each [reason, causes], and the tools it invoked, in order
Result(step, ran, ok, chain, main, thumb, log, calls) ==
    [step |-> step, ran |-> ran, ok |-> ok, chain |-> chain, main |-> main,
     thumb |-> thumb, log |-> log, calls |-> calls]

NoResult == Result("", FALSE, FALSE, "", FALSE, FALSE, <<>>, <<>>)

\* one invocation of an external tool and whether it succeeded
Call(tool, ok) == [tool |-> tool, ok |-> ok]

\* hashFile or fsp.stat rejected: the task promise rejects at that step
Rejected(step) == Result(step, FALSE, FALSE, "", FALSE, FALSE, <<>>, <<>>)

\* the early return of either processor
CachedResult == Result("", FALSE, TRUE, "cached", FALSE, FALSE, <<>>, <<>>)

Reason_image == "image process failed: "
Reason_video == "video failed: "
Reason_poster == "poster failed; using solid placeholder"

\* sharp on the full-size rendition, then on the thumbnail
ImageEnv == [full : BOOLEAN, thumb : BOOLEAN]

processImage(e) ==
    IF e.full /\ e.thumb
    THEN Result("", TRUE, TRUE, "image", TRUE, TRUE, <<>>,
                <<Call("sharpFull", TRUE), Call("sharpThumb", TRUE)>>)
    ELSE Result("", TRUE, FALSE, "failed", e.full, FALSE,
                <<[reason |-> Reason_image, causes |-> <<<<"sharp", "failed">>>>]>>,
                IF e.full THEN <<Call("sharpFull", TRUE), Call("sharpThumb", FALSE)>>
                ELSE <<Call("sharpFull", FALSE)>>)

ImageResults == {processImage(e) : e \in ImageEnv}

\* the ffmpeg and ffprobe invocations of processVideo, in the order of the code
VideoEnv ==
    [transcode : BOOLEAN, remux : BOOLEAN, hasAudio : BOOLEAN, synth : BOOLEAN,
     frameOut : BOOLEAN, solid1 : BOOLEAN, frameSrc : BOOLEAN, solid2 : BOOLEAN,
     solid3 : BOOLEAN]

\* the three poster steps never leave processVideo: tryMakePoster returns
\* false, and the last makeSolidPoster sits in try { } catch {}
tryMakePoster(frame, solid) == frame \/ solid

\* try{ transcode }catch(e1){ try{ remux }catch(e2){ try{ synth }catch(e3){..}}}
StageCalls_All(e, hasAudio) ==
    <<Call("transcode", e.transcode), Call("remux", e.remux),
      Call("synth", hasAudio /\ e.synth)>>

StageCalls(e, hasAudio) ==
    <<Call("transcode", e.transcode)>>
    \o (IF e.transcode THEN <<>>
        ELSE <<Call("remux", e.remux)>>
             \o (IF e.remux THEN <<>> ELSE <<Call("synth", hasAudio /\ e.synth)>>))

\* the invocations of one tryMakePoster: ffmpegPoster, then makeSolidPoster
tryMakePosterCalls(from, frame, solid) ==
    <<Call(from, frame)>> \o (IF frame THEN <<>> ELSE <<Call("solid", solid)>>)

\* tryMakePoster(outMp4) || tryMakePoster(src), then the last makeSolidPoster
PosterCalls(e) ==
    tryMakePosterCalls("frameOut", e.frameOut, e.solid1)
    \o (IF tryMakePoster(e.frameOut, e.solid1) THEN <<>>
        ELSE tryMakePosterCalls("frameSrc", e.frameSrc, e.solid2)
             \o (IF tryMakePoster(e.frameSrc, e.solid2) THEN <<>>
                 ELSE <<Call("solid", e.solid3)>>))

processVideo(e, ffprobe) ==
    LET \* probeStreams resolves { hasAudio: false } when ffprobe cannot be spawned
        hasAudio == ffprobe /\ e.hasAudio
        e3 == IF ~hasAudio THEN "no audio to synth" ELSE "synth failed"
        chain == IF e.transcode THEN "transcode"
                 ELSE IF e.remux THEN "remux"
                 ELSE IF hasAudio /\ e.synth THEN "synth"
                 ELSE "failed"
        posterOK == tryMakePoster(e.frameOut, e.solid1)
                    \/ tryMakePoster(e.frameSrc, e.solid2)
    IN  IF chain = "failed"
        THEN Result("", TRUE, FALSE, chain, FALSE, FALSE,
                    <<[reason |-> Reason_video,
                       causes |-> << <<"transcode", "encode failed">>,
                                     <<"remux", "remux failed">>,
                                     <<"synth", e3>> >>]>>,
                    StageCalls(e, hasAudio))
        ELSE IF posterOK
        THEN Result("", TRUE, TRUE, chain, TRUE, TRUE, <<>>,
                    StageCalls(e, hasAudio) \o PosterCalls(e))
        ELSE Result("", TRUE, TRUE, chain, TRUE, e.solid3,
                    <<[reason |-> Reason_poster, causes |-> <<>>]>>,
                    StageCalls(e, hasAudio) \o PosterCalls(e))

VideoResults == {processVideo(e, TRUE) : e \in VideoEnv}
VideoResultsNoProbe == {processVideo(e, FALSE) : e \in VideoEnv}

\* every way the task of file f can end before its processor starts a tool:
\* hashFile or fsp.stat rejects, or the processor returns at its first line
EarlyResults(f, force, files) ==
    {Rejected("hash"), Rejected("stat")}
    \cup (IF Cached(f, force, files) THEN {CachedResult} ELSE {})

\* every way processImage or processVideo can end once it is past that line
ProcessorResults(f, ffprobe) ==
    IF isImage(f.abs) THEN ImageResults
    ELSE IF ffprobe THEN VideoResults ELSE VideoResultsNoProbe

\* logSkip: one line of the skip log per call
LogLines_Dropped(f, r) == <<>>

LogLines(f, r) ==
    [k \in 1..Len(r.log) |-> [abs |-> f.abs, reason |-> r.log[k].reason,
                              causes |-> r.log[k].causes]]

\* the output files a task body leaves behind
Written(f, r) ==
    (IF r.main THEN {OutMain(f)} ELSE {}) \cup (IF r.thumb THEN {OutThumb(f)} ELSE {})

----------------------------------------------------------------------------
(* SpecManifest: one run of main(), for an export without a metadata       *)
(* directory (buildMetaIndex returns two empty maps at once)               *)

BaseE_lower == <<"e">> \o DotJpg
BaseFg == <<"F"," ","g">> \o DotJpg

ManifestFiles ==
    { [abs |-> Dir_posts_202305 \o BaseE, content |-> "k1",
       mtimeMs |-> DateUTC(2024, 2, 3, 4), probeOut |-> NULL],
      [abs |-> Dir_posts_202305 \o BaseFg, content |-> "k2",
       mtimeMs |-> DateUTC(2024, 2, 3, 4), probeOut |-> NULL],
      [abs |-> Dir_reels_202305 \o BaseC, content |-> "k1",
       mtimeMs |-> DateUTC(2024, 2, 3, 4), probeOut |-> DateUTC(2022, 7, 8, 9)],
      [abs |-> Dir_other \o BaseE_lower, content |-> "k1",
       mtimeMs |-> DateUTC(2024, 2, 3, 4), probeOut |-> NULL],
      [abs |-> Dir_other \o BaseFg, content |-> "k2",
       mtimeMs |-> DateUTC(2023, 4, 15, 12), probeOut |-> NULL] }

\* collectDiskMedia walks media/posts, then media/reels, then media/other
RootRank(f) ==
    LET root == SubSeq(f.abs, 10, 14)
    IN  IF root = Str_posts THEN 1 ELSE IF root = Str_reels THEN 2 ELSE 3

FileLists ==
    LET all == UNION {[1..n -> ManifestFiles] : n \in 0..MaxFiles}
    IN  {fs \in all :
            /\ \A i, j \in 1..Len(fs) : i # j => fs[i].abs # fs[j].abs
            /\ \A i, j \in 1..Len(fs) : i < j => RootRank(fs[i]) <= RootRank(fs[j])}

\* the export on disk is what walk() yields below the three roots; the output
\* directory is fresh and no earlier run left a skip log
InitManifest ==
    /\ pc = "start"
    /\ InitCommon
    /\ hasFFMPEG \in BOOLEAN
    /\ FORCE = FALSE
    /\ tree \in FileLists
    /\ limit \in 1..MaxConcurrency

\* main() up to process.exit(1): both hasBin calls, then the ffmpeg check
AfterStartup_NoCheck(ffmpeg) == "index"

AfterStartup(ffmpeg) == IF ~ffmpeg THEN "exit" ELSE "index"

Startup ==
    /\ pc = "start"
    /\ pc' = AfterStartup(hasFFMPEG)
    /\ exitCode' = IF pc' = "exit" THEN 1 ELSE exitCode
    /\ UNCHANGED <<records, byBase, byNumericId, indexed, hasFFPROBE, file, loc,
                   diskFiles, limit, nextIdx, active, taskPc, items, out,
                   hasFFMPEG, thumbVars, FORCE, tree, outFiles, skipLog, taskResult,
                   reported, runs, badFiles>>

\* rel.includes(sub)
Includes(s, sub) ==
    \E k \in 1..(Len(s) - Len(sub) + 1) : SubSeq(s, k, k + Len(sub) - 1) = sub

Str_recently_deleted == <<"/","m","e","d","i","a","/","r","e","c","e","n","t","l","y","_","d","e","l","e","t","e","d","/">>

\* the two tests of collectDiskMedia on a walked file
Discovered_AnyExt(f) == ~Includes(SlashPath(f.abs), Str_recently_deleted)

Discovered(f) ==
    /\ ~Includes(SlashPath(f.abs), Str_recently_deleted)
    /\ isImage(f.abs) \/ isVideo(f.abs)

CollectDiskMedia ==
    /\ pc = "scan"
    /\ diskFiles' = SelectSeq(tree, Discovered)
    /\ taskPc' = [i \in 1..Len(diskFiles') |-> "idle"]
    /\ taskResult' = [i \in 1..Len(diskFiles') |-> NoResult]
    /\ pc' = "pool"
    /\ UNCHANGED <<records, byBase, byNumericId, indexed, hasFFPROBE, file, loc,
                   limit, nextIdx, active, items, out, hasFFMPEG, thumbVars, FORCE, tree,
                   outFiles, skipLog, reported, exitCode, runs, badFiles>>

Min(a, b) == IF a <= b THEN a ELSE b

\* asyncPool's next(): resolve when every task was started and none is active,
\* else start tasks while active < limit && i < tasks.length
PoolNext_NoLimit(i, act, tpc) ==
    LET n == Len(tpc)
        k == n - i
    IN  IF i >= n /\ act = 0
        THEN [resolved |-> TRUE, i |-> i, active |-> act, taskPc |-> tpc]
        ELSE [resolved |-> FALSE, i |-> i + k, active |-> act + k,
              taskPc |-> [j \in 1..n |-> IF j > i /\ j <= i + k THEN "running" ELSE tpc[j]]]

\* the same pool resolving as soon as every task was started
PoolNext_NoWait(i, act, tpc) ==
    LET n == Len(tpc)
        k == Min(limit - act, n - i)
    IN  IF i >= n
        THEN [resolved |-> TRUE, i |-> i, active |-> act, taskPc |-> tpc]
        ELSE [resolved |-> FALSE, i |-> i + k, active |-> act + k,
              taskPc |-> [j \in 1..n |-> IF j > i /\ j <= i + k THEN "running" ELSE tpc[j]]]

PoolNext(i, act, tpc) ==
    LET n == Len(tpc)
        k == Min(limit - act, n - i)
    IN  IF i >= n /\ act = 0
        THEN [resolved |-> TRUE, i |-> i, active |-> act, taskPc |-> tpc]
        ELSE [resolved |-> FALSE, i |-> i + k, active |-> act + k,
              taskPc |-> [j \in 1..n |-> IF j > i /\ j <= i + k THEN "running" ELSE tpc[j]]]

\* resolve(Promise.all(ret)): main() goes on when no promise of ret is
\* rejected; a rejected one rejects main(), which nothing catches
PoolResolved(tpc) ==
    IF \E j \in 1..Len(tpc) : tpc[j] = "doneRejected" THEN "crashed" ELSE "dedupe"

\* await asyncPool(CONCURRENCY, tasks, ...): the first call of next()
PoolStart ==
    /\ pc = "pool"
    /\ LET r == PoolNext(nextIdx, active, taskPc)
       IN  /\ nextIdx' = r.i
           /\ active' = r.active
           /\ taskPc' = r.taskPc
           /\ pc' = IF r.resolved THEN PoolResolved(r.taskPc) ELSE "running"
    /\ UNCHANGED <<records, byBase, byNumericId, indexed, hasFFPROBE, file, loc,
                   diskFiles, limit, items, out, hasFFMPEG, thumbVars, FORCE, tree, outFiles,
                   skipLog, taskResult, reported, exitCode, runs, badFiles>>

\* tasks[idx]().catch(()=>{}): the promise the pool keeps is never rejected
catchAll_Missing(rejected) == rejected

catchAll(rejected) == FALSE

\* the body of task i ends with r: the lines logged, the files written and
\* the push of its entry when the processor returned true
Settle(i, r) ==
    LET f == diskFiles[i]
    IN  /\ items' = IF r.ok THEN Append(items, ItemOf(f)) ELSE items
        /\ skipLog' = skipLog \o LogLines(f, r)
        /\ outFiles' = outFiles \cup Written(f, r)
        /\ taskResult' = [taskResult EXCEPT ![i] = r]
        /\ taskPc' = [taskPc EXCEPT
                         ![i] = IF catchAll(r.step # "") THEN "rejected" ELSE "settled"]

\* a task runs up to the first await of its processor: hash, stat, timestamp
\* and the existsSync test; past the test the tools are started
TaskBody(i) ==
    /\ pc = "running"
    /\ taskPc[i] = "running"
    /\ \/ \E r \in EarlyResults(diskFiles[i], FORCE, outFiles) : Settle(i, r)
       \/ /\ ~Cached(diskFiles[i], FORCE, outFiles)
          /\ taskPc' = [taskPc EXCEPT ![i] = "tools"]
          /\ UNCHANGED <<items, skipLog, outFiles, taskResult>>
    /\ UNCHANGED <<pc, records, byBase, byNumericId, indexed, hasFFPROBE, file, loc,
                   diskFiles, limit, nextIdx, active, out, hasFFMPEG, thumbVars, FORCE, tree,
                   reported, exitCode, runs, badFiles>>

\* the rest of processImage / processVideo: the tools run, their outputs are
\* written, and the task pushes its entry
TaskTools(i) ==
    /\ pc = "running"
    /\ taskPc[i] = "tools"
    /\ \E r \in ProcessorResults(diskFiles[i], hasFFPROBE) : Settle(i, r)
    /\ UNCHANGED <<pc, records, byBase, byNumericId, indexed, hasFFPROBE, file, loc,
                   diskFiles, limit, nextIdx, active, out, hasFFMPEG, thumbVars, FORCE, tree,
                   reported, exitCode, runs, badFiles>>

\* .finally(()=>{ onProgress?.(); active--; next(); })
TaskFinally(i) ==
    /\ pc = "running"
    /\ taskPc[i] \in {"settled", "rejected"}
    /\ LET end == IF taskPc[i] = "rejected" THEN "doneRejected" ELSE "done"
           r == PoolNext(nextIdx, active - 1, [taskPc EXCEPT ![i] = end])
       IN  /\ nextIdx' = r.i
           /\ active' = r.active
           /\ taskPc' = r.taskPc
           /\ pc' = IF r.resolved THEN PoolResolved(r.taskPc) ELSE "running"
    /\ UNCHANGED <<records, byBase, byNumericId, indexed, hasFFPROBE, file, loc,
                   diskFiles, limit, items, out, hasFFMPEG, thumbVars, FORCE, tree, outFiles,
                   skipLog, taskResult, reported, exitCode, runs, badFiles>>

\* de-dupe + sort + writeFile(media.json)
WriteManifest ==
    /\ pc = "dedupe"
    /\ out' = Manifest(items)
    /\ pc' = "report"
    /\ UNCHANGED <<records, byBase, byNumericId, indexed, hasFFPROBE, file, loc,
                   diskFiles, limit, nextIdx, active, taskPc, items, hasFFMPEG, thumbVars,
                   FORCE, tree, outFiles, skipLog, taskResult, reported, exitCode,
                   runs, badFiles>>

\* the count of the summary: the non-empty lines of the skip log file
SkippedCount(log) == Len(log)

\* the end-of-run report; main() returns and the process ends with code 0
Report ==
    /\ pc = "report"
    /\ reported' = SkippedCount(skipLog)
    /\ exitCode' = 0
    /\ pc' = "done"
    /\ UNCHANGED <<records, byBase, byNumericId, indexed, hasFFPROBE, file, loc,
                   diskFiles, limit, nextIdx, active, taskPc, items, out, hasFFMPEG, thumbVars,
                   FORCE, tree, outFiles, skipLog, taskResult, runs, badFiles>>

NextManifest ==
    \/ Startup
    \/ IndexReturn
    \/ CollectDiskMedia
    \/ PoolStart
    \/ \E i \in 1..Len(diskFiles) : TaskBody(i)
    \/ \E i \in 1..Len(diskFiles) : TaskTools(i)
    \/ \E i \in 1..Len(diskFiles) : TaskFinally(i)
    \/ WriteManifest
    \/ Report

SpecManifest == InitManifest /\ [][NextManifest]_vars

----------------------------------------------------------------------------
(* SpecRerun: main() run again on the same export and the same OUT_DIR: the *)
(* output files and the skip log of the earlier run are still there         *)

RerunFiles ==
    { [abs |-> Dir_posts_202305 \o BaseE, content |-> "k1",
       mtimeMs |-> DateUTC(2024, 2, 3, 4), probeOut |-> NULL],
      [abs |-> Dir_posts_202305 \o BaseFg, content |-> "k2",
       mtimeMs |-> DateUTC(2024, 2, 3, 4), probeOut |-> NULL],
      [abs |-> Dir_reels_202305 \o BaseC, content |-> "k1",
       mtimeMs |-> DateUTC(2024, 2, 3, 4), probeOut |-> DateUTC(2022, 7, 8, 9)] }

RerunLists ==
    LET all == UNION {[1..n -> RerunFiles] : n \in 0..MaxFiles}
    IN  {fs \in all :
            /\ \A i, j \in 1..Len(fs) : i # j => fs[i].abs # fs[j].abs
            /\ \A i, j \in 1..Len(fs) : i < j => RootRank(fs[i]) <= RootRank(fs[j])}

InitRerun ==
    /\ pc = "start"
    /\ InitCommon
    /\ hasFFMPEG = TRUE
    /\ FORCE = FALSE
    /\ tree \in RerunLists
    /\ limit \in 1..MaxConcurrency

\* the operator starts the script again, with or without --force: a new
\* process, whose variables start afresh; the export, the output files and the
\* skip log are what the run before left
Rerun ==
    /\ pc = "done"
    /\ Len(runs) < MaxReruns
    /\ runs' = Append(runs, out)
    /\ FORCE' \in BOOLEAN
    /\ pc' = "start"
    /\ diskFiles' = <<>>
    /\ nextIdx' = 0
    /\ active' = 0
    /\ taskPc' = <<>>
    /\ taskResult' = <<>>
    /\ items' = <<>>
    /\ out' = <<>>
    /\ reported' = NULL
    /\ exitCode' = NULL
    /\ UNCHANGED <<records, byBase, byNumericId, indexed, hasFFPROBE, file, loc,
                   limit, hasFFMPEG, thumbVars, tree, outFiles, skipLog, badFiles>>

NextRerun == NextManifest \/ Rerun

SpecRerun == InitRerun /\ [][NextRerun]_vars

----------------------------------------------------------------------------
(* SpecScan: collectDiskMedia on exports that also hold files of other      *)
(* kinds and "recently deleted" folders, up to the start of the tasks built *)
(* from its result                                                          *)

Str_deleted == <<"r","e","c","e","n","t","l","y","_","d","e","l","e","t","e","d">>
Dir_posts_deleted == <<"/","e">> \o Str_media \o Str_posts \o <<"/">> \o Str_deleted \o <<"/">>
Dir_other_media_deleted == Dir_other \o SubSeq(Str_recently_deleted, 2, Len(Str_recently_deleted))
BaseTxt == <<"n",".","t","x","t">>
BaseBare == <<"R","E","A","D","M","E">>

ScanFiles ==
    [abs : {Dir_posts_202305 \o BaseE, Dir_posts_202305 \o BaseTxt,
            Dir_posts_deleted \o BaseE, Dir_reels_202305 \o BaseC,
            Dir_other \o BaseBare, Dir_other_media_deleted \o BaseC},
     content : {"k1"}, mtimeMs : {DateUTC(2024, 2, 3, 4)}, probeOut : {NULL}]

ScanLists ==
    LET all == UNION {[1..n -> ScanFiles] : n \in 0..MaxFiles}
    IN  {fs \in all :
            /\ \A i, j \in 1..Len(fs) : i # j => fs[i].abs # fs[j].abs
            /\ \A i, j \in 1..Len(fs) : i < j => RootRank(fs[i]) <= RootRank(fs[j])}

InitScan ==
    /\ pc = "scan"
    /\ InitCommon
    /\ hasFFMPEG = TRUE
    /\ FORCE = FALSE
    /\ tree \in ScanLists
    /\ limit \in 1..MaxConcurrency

NextScan == CollectDiskMedia \/ PoolStart

SpecScan == InitScan /\ [][NextScan]_vars

\* C9: the final manifest never holds two entries with the same (kind, primary
\* output path) pair: of every group of accumulated entries that share the
\* pair, the first accumulated one is kept and the later ones are dropped.
FirstOfGroup(i) ==
    \A j \in 1..(i - 1) :
        ~(items[j].type = items[i].type /\ items[j].src = items[i].src)

C9_UniqueKindAndPath ==
    pc = "done" =>
        /\ \A a, b \in 1..Len(out) :
              (out[a].type = out[b].type /\ out[a].src = out[b].src) => a = b
        /\ Len(out) = Cardinality({i \in 1..Len(items) : FirstOfGroup(i)})
        /\ \A i \in 1..Len(items) :
              FirstOfGroup(i) => \E a \in 1..Len(out) : out[a] = items[i]

\* C9 witness: two files gave entries with the same kind and output path but
\* different timestamps; the manifest holds the first accumulated one only
C9_Witness ==
    /\ pc = "done"
    /\ Len(items) = 2
    /\ items[1].type = items[2].type /\ items[1].src = items[2].src
    /\ items[1].ts # items[2].ts
    /\ out = <<items[1]>>

\* C10: in the final manifest every adjacent pair (a, b) has
\* a.timestamp >= b.timestamp, and entries with equal timestamps are ordered by
\* descending identifier.
C10_SortedWithIdTieBreak ==
    pc = "done" =>
        \A k \in 1..(Len(out) - 1) :
            \/ out[k].ts > out[k + 1].ts
            \/ (out[k].ts = out[k + 1].ts /\ ~StrLess(out[k].id, out[k + 1].id))

----------------------------------------------------------------------------
(* SpecPools: the two worker pools of the repository, asyncPool of the      *)
(* ingest script (inside a run of its main()) and runPool of the organizer  *)
(* script ingest-instagram-media.js, whose jobs catch their own errors      *)

\* the media files of the export, each with the year and month of the
\* timestamp the job resolves for it (lines 296-335)
OrgBaseA == <<"a">> \o DotJpg
OrgBaseA1 == <<"a","-","1">> \o DotJpg
Month_2023_05 == <<"2","0","2","3","/","0","5">>
Month_2023_06 == <<"2","0","2","3","/","0","6">>

OrgFiles ==
    { [abs |-> Dir_posts_202305 \o OrgBaseA, month |-> Month_2023_05],
      [abs |-> Dir_other \o OrgBaseA, month |-> Month_2023_05],
      [abs |-> Dir_other \o OrgBaseA1, month |-> Month_2023_05],
      [abs |-> Dir_reels_202305 \o OrgBaseA, month |-> Month_2023_06] }

OrgLists ==
    LET all == UNION {[1..n -> OrgFiles] : n \in 0..MaxFiles}
    IN  {fs \in all : \A i, j \in 1..Len(fs) : i # j => fs[i] # fs[j]}

\* outDir = OUT_ROOT/media/yyyy/mm; outPath = path.join(outDir, base),
\* relative to OUT_ROOT
OutPathOf(f) ==
    <<"m","e","d","i","a","/">> \o f.month \o <<"/">> \o basename(f.abs)

\* `${base}-${attempt}${ext}` in the directory of dst (attempt below 10)
Candidate(dst, attempt) ==
    IF attempt = 0 THEN dst
    ELSE SubSeq(dst, 1, LastIndexOf(dst, "/"))
         \o stemOf(basename(dst)) \o <<"-">>
         \o <<CHOOSE c \in Digits : DigitValue(c) = attempt>>
         \o extname(dst)

\* ensureUniquePath: the first candidate that fsp.access does not find
RECURSIVE UniqueFrom(_, _, _)
UniqueFrom(dst, attempt, files) ==
    IF Candidate(dst, attempt) \in files
    THEN UniqueFrom(dst, attempt + 1, files)
    ELSE Candidate(dst, attempt)

ensureUniquePath(dst, files) == UniqueFrom(dst, 0, files)

\* what a job has done: the path ensureUniquePath gave it (<<>> before), and
\* whether its materializeFile unlinked or overwrote a file that was there
NoJob == [out |-> <<>>, clobbered |-> FALSE]

InitRunPool ==
    /\ pc = "jobs"
    /\ InitCommon
    /\ hasFFMPEG = TRUE
    /\ FORCE = FALSE
    /\ tree = <<>>
    /\ limit \in 1..MaxConcurrency

\* what runPool and its jobs leave alone
poolVars == <<records, byBase, byNumericId, indexed, hasFFPROBE, file, loc, limit,
              out, hasFFMPEG, thumbVars, FORCE, tree, skipLog, reported, exitCode, runs,
              badFiles>>

\* const tasks = mediaFiles.map(...); await runPool(CONCURRENCY, tasks)
RunPoolCall ==
    /\ pc = "jobs"
    /\ \E fs \in OrgLists :
          /\ diskFiles' = fs
          /\ taskPc' = [i \in 1..Len(fs) |-> "idle"]
          /\ taskResult' = [i \in 1..Len(fs) |-> NoJob]
    /\ pc' = "prime"
    /\ UNCHANGED <<poolVars, nextIdx, active, items, outFiles>>

\* spawn(): const job = jobs[i++]; p = job().catch(...).finally(...); running.add(p)
Spawn ==
    /\ nextIdx' = nextIdx + 1
    /\ active' = active + 1
    /\ taskPc' = [taskPc EXCEPT ![nextIdx + 1] = "running"]

\* for (let k = 0; k < Math.min(limit, jobs.length); k++) await spawn();
RunPoolPrime ==
    /\ pc = "prime"
    /\ IF nextIdx < Min(limit, Len(taskPc))
       THEN Spawn /\ pc' = "prime"
       ELSE pc' = "loop" /\ UNCHANGED <<nextIdx, active, taskPc>>
    /\ UNCHANGED <<poolVars, diskFiles, items, outFiles, taskResult>>

\* while (running.size > 0 || i < jobs.length) { ... await Promise.race([sleep(120), ...running]);
RunPoolLoop ==
    /\ pc = "loop"
    /\ pc' = IF active > 0 \/ nextIdx < Len(taskPc) THEN "fill" ELSE "finished"
    /\ UNCHANGED <<poolVars, diskFiles, nextIdx, active, taskPc, items, outFiles,
                   taskResult>>

\* while (running.size < limit && i < jobs.length) await spawn();
RunPoolFill ==
    /\ pc = "fill"
    /\ IF active < limit /\ nextIdx < Len(taskPc)
       THEN Spawn /\ pc' = "fill"
       ELSE pc' = "loop" /\ UNCHANGED <<nextIdx, active, taskPc>>
    /\ UNCHANGED <<poolVars, diskFiles, items, outFiles, taskResult>>

\* a job up to the return of ensureUniquePath; fsp.stat of the mtime fallback
\* may reject before, and the rejection is caught and printed
JobPath(i) ==
    /\ pc \in {"prime", "loop", "fill"}
    /\ taskPc[i] = "running"
    /\ \/ /\ taskPc' = [taskPc EXCEPT ![i] = "materialize"]
          /\ taskResult' = [taskResult EXCEPT
                ![i].out = ensureUniquePath(OutPathOf(diskFiles[i]), outFiles)]
       \/ /\ taskPc' = [taskPc EXCEPT ![i] = "settled"]
          /\ UNCHANGED taskResult
    /\ UNCHANGED <<pc, poolVars, diskFiles, nextIdx, active, items, outFiles>>

\* materializeFile, then indexRecords.push: the job runs to its end, or
\* rejects (at mkdir, or at the copy after the unlink) and has the rejection
\* caught and printed
JobBody(i) ==
    /\ pc \in {"prime", "loop", "fill"}
    /\ taskPc[i] = "materialize"
    /\ LET p == taskResult[i].out
           hit == p \in outFiles
       IN  \/ /\ outFiles' = outFiles \cup {p}
              /\ items' = Append(items, [src |-> diskFiles[i].abs, out |-> p])
              /\ taskResult' = [taskResult EXCEPT ![i].clobbered = hit]
           \/ /\ outFiles' = outFiles \ {p}
              /\ taskResult' = [taskResult EXCEPT ![i].clobbered = hit]
              /\ UNCHANGED items
           \/ UNCHANGED <<outFiles, items, taskResult>>
    /\ taskPc' = [taskPc EXCEPT ![i] = "settled"]
    /\ UNCHANGED <<pc, poolVars, diskFiles, nextIdx, active>>

\* .finally(() => { running.delete(p); })
JobFinally(i) ==
    /\ pc \in {"prime", "loop", "fill"}
    /\ taskPc[i] = "settled"
    /\ taskPc' = [taskPc EXCEPT ![i] = "done"]
    /\ active' = active - 1
    /\ UNCHANGED <<pc, poolVars, diskFiles, nextIdx, items, outFiles, taskResult>>

NextRunPool ==
    \/ RunPoolCall
    \/ RunPoolPrime
    \/ RunPoolLoop
    \/ RunPoolFill
    \/ \E i \in 1..Len(taskPc) : JobPath(i)
    \/ \E i \in 1..Len(taskPc) : JobBody(i)
    \/ \E i \in 1..Len(taskPc) : JobFinally(i)

InitPools == InitManifest \/ InitRunPool

NextPools == NextManifest \/ NextRunPool

SpecPools == InitPools /\ [][NextPools]_vars

\* the organizer script alone
SpecOrganize == InitRunPool /\ [][NextRunPool]_vars

----------------------------------------------------------------------------
(* Claims on the processors, the pool and the startup check *)

\* the skip-log lines that name the file of task i
LinesOf(i) == {k \in 1..Len(skipLog) : skipLog[k].abs = diskFiles[i].abs}

\* the tasks whose processVideo ran and found transcode, remux and synth failing
ChainFailed(i) ==
    /\ isVideo(diskFiles[i].abs)
    /\ taskResult[i].ran
    /\ taskResult[i].chain = "failed"

\* the entries of a sequence of entries that stand for the file of task i
EntriesOf(its, i) ==
    {k \in 1..Len(its) :
        /\ its[k].type = ItemOf(diskFiles[i]).type
        /\ its[k].src = ItemOf(diskFiles[i]).src}

C13_PosterExists ==
    \A i \in 1..Len(taskResult) :
        (isVideo(diskFiles[i].abs) /\ taskResult[i].main) =>
            /\ EntriesOf(items, i) # {}
            /\ \A k \in EntriesOf(items, i) : items[k].thumb \in outFiles

\* C14: a task that rejects, or whose processor fails, never keeps another
\* task from being started and run to its end: main() is never rejected by
\* the pool; while the pool runs, some started task can still take a step and
\* a task waits only while the pool is full; main() goes past the pool only
\* when every task is done, and it ends with the manifest written.
C14_FailuresIsolated ==
    /\ pc # "crashed"
    /\ pc = "running" =>
          /\ \E i \in 1..Len(taskPc) : taskPc[i] \in {"running", "tools", "settled", "rejected"}
          /\ (\E i \in 1..Len(taskPc) : taskPc[i] = "idle") => active = limit
    /\ pc \in {"dedupe", "report", "done"} =>
          \A i \in 1..Len(diskFiles) : taskPc[i] = "done"
    /\ pc = "done" => out = Manifest(items)

\* C14 witness: with one task at a time, the first task rejected at its hash,
\* yet the last file was processed after it and is the manifest
C14_Witness ==
    /\ pc = "done"
    /\ limit = 1
    /\ Len(diskFiles) >= 2
    /\ taskResult[1].step = "hash"
    /\ taskResult[Len(diskFiles)].ok
    /\ out = <<ItemOf(diskFiles[Len(diskFiles)])>>

\* C15: every per-file failure results in a skip-log entry: when the run has
\* ended, no discovered file is missing from both the manifest and the skip log.
C15_FailuresLogged ==
    pc = "done" =>
        \A i \in 1..Len(diskFiles) : EntriesOf(out, i) # {} \/ LinesOf(i) # {}

\* C16: at every moment the number of tasks started and not yet settled is at
\* most the concurrency limit (and so is the pool's own count of active tasks).
Unsettled == {i \in 1..Len(taskPc) : taskPc[i] \in {"running", "tools", "materialize"}}

C16_AtMostLimitActive ==
    /\ Cardinality(Unsettled) <= limit
    /\ active <= limit

\* C16 witness: asyncPool is full while a task still waits to be started
C16_Witness ==
    /\ pc = "running"
    /\ Cardinality(Unsettled) = limit
    /\ \E i \in 1..Len(taskPc) : taskPc[i] = "idle"

\* C17: if the startup check for ffmpeg fails, the process exits with code 1,
\* and before that exit no index was built, no file discovered or hashed, no
\* codec or probe run on a file, and neither the skip log nor the manifest
\* written.
C17_ExitBeforeAnyWork ==
    (~hasFFMPEG /\ pc # "start") =>
        /\ pc = "exit"
        /\ exitCode = 1
        /\ indexed = 0 /\ byBase = EmptyMap /\ byNumericId = EmptyMap
        /\ diskFiles = <<>> /\ nextIdx = 0 /\ taskResult = <<>>
        /\ outFiles = {} /\ skipLog = <<>>
        /\ out = <<>> /\ reported = NULL

\* C17 witness: the process has exited with code 1 on an export that holds files
C17_Witness ==
    /\ pc = "exit"
    /\ exitCode = 1
    /\ ~hasFFMPEG
    /\ Len(tree) > 0

\* a path that lies under a folder named recently_deleted
UnderDeleted(p) == Includes(SlashPath(p), <<"/">> \o Str_deleted \o <<"/">>)

\* C18 as stated: discovery never hands a file to a task if its path lies under
\* a recently-deleted subtree anywhere below the scanned media roots, or if its
\* extension is not a recognized image or video extension.
C18_NoDeletedNoForeign ==
    \A i \in 1..Len(diskFiles) :
        /\ ~UnderDeleted(diskFiles[i].abs)
        /\ toLowerCase(extname(diskFiles[i].abs)) \in IMAGE_EXTS \cup VIDEO_EXTS

\* C18 amended: discovery never hands a file to a task if its path contains
\* the folder sequence /media/recently_deleted/, or if its extension is not a
\* recognized image or video extension; the files it hands over are the other
\* walked files, in walk order.
C18_NoMediaDeletedNoForeign ==
    /\ \A i \in 1..Len(diskFiles) :
          /\ ~Includes(SlashPath(diskFiles[i].abs), Str_recently_deleted)
          /\ toLowerCase(extname(diskFiles[i].abs)) \in IMAGE_EXTS \cup VIDEO_EXTS
    /\ pc # "scan" => Len(taskPc) = Len(diskFiles)

\* C18 witness: the tasks were started on an export that holds a video below
\* media/recently_deleted next to a file that has a task; the video has none
C18_Witness ==
    /\ pc = "running"
    /\ \E i \in 1..Len(tree) :
          /\ Includes(tree[i].abs, Str_recently_deleted)
          /\ isVideo(tree[i].abs)
    /\ Len(diskFiles) = 1
    /\ Len(tree) = 2

\* C19: a metadata file that is unreadable or malformed never aborts indexing:
\* the step that meets it leaves both maps as they are and stays in the loop
\* over the files, buildMetaIndex is never left by an exception, every further
\* record can still be indexed and the index can still be returned to main().
C19_BadFileNeverAborts ==
    /\ [](pc # "aborted")
    /\ []((pc = "index" /\ indexed < MaxRecords) => ENABLED IndexRecord)
    /\ [](pc = "index" => ENABLED IndexReturn)
    /\ [][badFiles' # badFiles =>
            /\ byBase' = byBase /\ byNumericId' = byNumericId
            /\ indexed' = indexed
            /\ pc' = "index"]_vars

\* C19 witness: a file failed to parse after one record and before another,
\* and the task of a media file found its metadata in the index that was returned
C19_Witness ==
    /\ pc = "resolved"
    /\ Len(badFiles) = 1
    /\ badFiles[1] = 1
    /\ indexed = 2
    /\ loc.meta.found

\* C11: a second run with --force off and unchanged sources invokes sharp and
\* ffmpeg for no file and writes a manifest identical to the first run's.
C11_SecondRunIdentical ==
    (pc = "done" /\ runs # <<>> /\ ~FORCE) =>
        /\ \A i \in 1..Len(taskResult) : ~taskResult[i].ran
        /\ out = runs[Len(runs)]

\* the discovered files this run left out of the manifest
SkippedNow == {i \in 1..Len(diskFiles) : EntriesOf(out, i) = {}}

\* C20: the skipped-file count of the end-of-run summary equals the number of
\* source files that were left out of the manifest during this run.
C20_ReportedCountIsSkipped ==
    pc = "done" => reported = Cardinality(SkippedNow)

\* the three stages of processVideo that produce the mp4
StageTools == {"transcode", "remux", "synth"}

\* C21: the stages run in the order transcode, remux, synth: remux is invoked
\* only after transcode failed, synth only after transcode and remux both
\* failed, and no stage is invoked after a stage that succeeded.
C21_StagesInOrder ==
    \A i \in 1..Len(taskResult) :
        LET c == taskResult[i].calls
        IN  \A k \in 1..Len(c) :
                /\ c[k].tool = "remux" =>
                       \E j \in 1..(k - 1) : c[j] = Call("transcode", FALSE)
                /\ c[k].tool = "synth" =>
                       /\ \E j \in 1..(k - 1) : c[j] = Call("transcode", FALSE)
                       /\ \E j \in 1..(k - 1) :
                              /\ c[j] = Call("remux", FALSE)
                              /\ \E h \in 1..(j - 1) : c[h] = Call("transcode", FALSE)
                /\ (c[k].tool \in StageTools /\ c[k].ok) =>
                       \A j \in (k + 1)..Len(c) : c[j].tool \notin StageTools

\* C21 witness: a video whose mp4 came from synth after transcode and remux
\* had failed, and whose poster was then made
C21_Witness ==
    \E i \in 1..Len(taskResult) :
        /\ taskPc[i] = "done"
        /\ taskResult[i].chain = "synth"
        /\ Len(taskResult[i].calls) > 3
        /\ taskResult[i].calls[3] = Call("synth", TRUE)

\* the invocations of tool t in the trace c
CallsOf(c, t) == {k \in 1..Len(c) : c[k].tool = t}

\* C22: for a video's poster, frame extraction from the source is attempted
\* whenever frame extraction from the transcoded output failed, and a solid
\* placeholder is generated only after both frame extractions have failed.
C22_SourceFrameBeforePlaceholder ==
    \A i \in 1..Len(taskResult) :
        LET c == taskResult[i].calls
        IN  /\ (\E k \in CallsOf(c, "frameOut") : ~c[k].ok) =>
                   CallsOf(c, "frameSrc") # {}
            /\ \A k \in CallsOf(c, "solid") :
                   /\ \E j \in 1..(k - 1) : c[j] = Call("frameOut", FALSE)
                   /\ \E j \in 1..(k - 1) : c[j] = Call("frameSrc", FALSE)

----------------------------------------------------------------------------
(* SpecTs: getTsMs on one export record.  The values of a parsed JSON       *)
(* record are JavaScript values; a finite number is kept as the digits of   *)
(* its decimal expansion, which is what String(n) prints for the magnitudes *)
(* used here (below 1e21, no exponent form).  Here `file` is the record     *)
(* `rec` of the loop of buildMetaIndex and `loc` the value getTsMs returns. *)

MaxFieldsSet == 2   \* candidate fields present in one record

JsVal(t, neg, int, frac) == [t |-> t, neg |-> neg, int |-> int, frac |-> frac]
Undefined == JsVal("undefined", FALSE, <<>>, <<>>)
Null == JsVal("null", FALSE, <<>>, <<>>)
NaN == JsVal("NaN", FALSE, <<>>, <<>>)
Infinity == JsVal("Infinity", FALSE, <<>>, <<>>)
Num(neg, int, frac) == JsVal("number", neg, int, frac)
Str(chars) == JsVal("string", FALSE, chars, <<>>)
Zero == Num(FALSE, <<"0">>, <<>>)

Secs10 == <<"1","7","0","0","0","0","0","0","0","0">>
Millis13 == <<"1","6","0","0","0","0","0","0","0","0","0","0","0">>

\* the values a candidate field holds in the records of the model
JsValues ==
    { Undefined, Null, Zero, Infinity,
      Num(FALSE, Secs10, <<>>), Num(FALSE, Millis13, <<>>),
      Num(FALSE, Secs10, <<"2","5">>),
      Str(Secs10), Str(<<"n","/","a">>), Str(<<>>) }

CandidateFields ==
    <<"creation_timestamp", "taken_at", "taken_at_timestamp", "created_at", "media0">>

\* media0 stands for rec.media[0].creation_timestamp (Undefined when rec.media
\* is not an array or its first element has no such field)
RawRecords ==
    {r \in [{CandidateFields[k] : k \in 1..Len(CandidateFields)} -> JsValues] :
        Cardinality({k \in 1..Len(CandidateFields) :
                        r[CandidateFields[k]] # Undefined}) <= MaxFieldsSet}

RECURSIVE StripZeros(_)
StripZeros(d) ==
    IF Len(d) > 1 /\ Head(d) = "0" THEN StripZeros(Tail(d)) ELSE d

AllDigits(chars) == \A k \in 1..Len(chars) : chars[k] \in Digits

\* a ?? b : a unless a is null or undefined
Nullish(v) == v.t \in {"undefined", "null"}

\* if(v): false for undefined, null, 0, NaN and ""
Truthy(v) ==
    CASE v.t = "number" -> v # Zero
      [] v.t = "Infinity" -> TRUE
      [] v.t = "string" -> v.int # <<>>
      [] OTHER -> FALSE

\* Number(v), for the values of JsValues: a string of digits is that number,
\* the empty string is 0, a string with another character is NaN
ToNumber(v) ==
    CASE v.t \in {"number", "NaN", "Infinity"} -> v
      [] v.t = "null" -> Zero
      [] v.t = "string" ->
            IF v.int = <<>> THEN Zero
            ELSE IF AllDigits(v.int) THEN Num(FALSE, StripZeros(v.int), <<>>)
            ELSE NaN
      [] OTHER -> NaN

IsFinite(n) == n.t = "number"

\* String(n) of a finite number
StringOf(n) ==
    (IF n.neg THEN <<"-">> ELSE <<>>) \o n.int
    \o (IF n.frac = <<>> THEN <<>> ELSE <<".">> \o n.frac)

\* n * 1000: the decimal point moves three places
Times1000(n) ==
    LET k == IF Len(n.frac) < 3 THEN Len(n.frac) ELSE 3
        pad == [j \in 1..(3 - k) |-> "0"]
    IN  Num(n.neg, StripZeros(n.int \o SubSeq(n.frac, 1, k) \o pad),
            SubSeq(n.frac, k + 1, Len(n.frac)))

\* String(n).length<13 ? n*1000 : n
Normalize(n) == IF Len(StringOf(n)) < 13 THEN Times1000(n) ELSE n

\* rec?.creation_timestamp ?? rec?.taken_at ?? rec?.taken_at_timestamp
\*     ?? rec?.created_at ?? null
CandOf(rec) ==
    IF ~Nullish(rec.creation_timestamp) THEN rec.creation_timestamp
    ELSE IF ~Nullish(rec.taken_at) THEN rec.taken_at
    ELSE IF ~Nullish(rec.taken_at_timestamp) THEN rec.taken_at_timestamp
    ELSE IF ~Nullish(rec.created_at) THEN rec.created_at
    ELSE Null

\* the number getTsMs goes on to normalize: Number(cand) when cand is truthy
\* and finite, else Number(media[0].creation_timestamp) under the same test
Picked(rec) ==
    IF Truthy(CandOf(rec)) /\ IsFinite(ToNumber(CandOf(rec)))
    THEN ToNumber(CandOf(rec))
    ELSE IF Truthy(rec.media0) /\ IsFinite(ToNumber(rec.media0))
    THEN ToNumber(rec.media0)
    ELSE Null

getTsMs(rec) == IF Picked(rec) = Null THEN Null ELSE Normalize(Picked(rec))

InitTs ==
    /\ pc = "record"
    /\ file \in RawRecords
    /\ loc = Undefined
    /\ records = <<>> /\ byBase = EmptyMap /\ byNumericId = EmptyMap
    /\ indexed = 0 /\ badFiles = <<>>
    /\ hasFFPROBE = TRUE /\ hasFFMPEG = TRUE /\ FORCE = FALSE /\ limit = 1
    /\ tree = <<>> /\ diskFiles = <<>> /\ nextIdx = 0 /\ active = 0
    /\ taskPc = <<>> /\ taskResult = <<>> /\ items = <<>> /\ out = <<>>
    /\ outFiles = {} /\ skipLog = <<>> /\ reported = NULL /\ exitCode = NULL
    /\ runs = <<>>
    /\ changed = FALSE /\ thumbCalls = <<>> /\ parsed = <<>>

\* const ts = getTsMs(rec);
GetTs ==
    /\ pc = "record"
    /\ loc' = getTsMs(file)
    /\ pc' = "ts"
    /\ UNCHANGED <<records, byBase, byNumericId, indexed, hasFFPROBE, file,
                   diskFiles, limit, nextIdx, active, taskPc, items, out>>
    /\ UNCHANGED <<runVars, badFiles>>

NextTs == GetTs

SpecTs == InitTs /\ [][NextTs]_vars

\* a value that is present, numeric, finite and not zero
ValidTs(v) == ~Nullish(v) /\ IsFinite(ToNumber(v)) /\ ToNumber(v) # Zero

FirstValid(rec) ==
    LET ok == {k \in 1..Len(CandidateFields) : ValidTs(rec[CandidateFields[k]])}
    IN  IF ok = {} THEN Null
        ELSE ToNumber(rec[CandidateFields[CHOOSE k \in ok : \A h \in ok : k <= h]])

\* C24: the indexed timestamp of a record comes from the first field, in the
\* candidate order, whose value is present, numeric and finite; an earlier
\* field that is zero, not numeric or not finite does not stop a later one.
C24_FirstValidCandidateWins ==
    pc = "ts" =>
        loc = IF FirstValid(file) = Null THEN Null ELSE Normalize(FirstValid(file))

\* the digits of the decimal representation of a finite number
DigitCount(n) == Len(n.int) + Len(n.frac)

\* C25: the indexed value of a numeric timestamp is the number times 1000
\* when its decimal representation has fewer than 13 digits, and the number
\* itself otherwise.
C25_ScaledByDigitCount ==
    (pc = "ts" /\ loc # Null) =>
        loc = IF DigitCount(Picked(file)) < 13 THEN Times1000(Picked(file))
              ELSE Picked(file)

\* the positions of a per-file task
TaskPositions == {"meta", "probe", "folder", "resolved"}

\* C26: no per-file task starts before buildMetaIndex has gone through every
\* metadata file, and no task adds, removes or changes an index entry: the
\* index changes only while main() awaits buildMetaIndex and no task has a
\* file, a task starts only from the position after its return, and main()
\* never goes back to indexing.
C26_IndexCompleteAndReadOnly ==
    /\ [][(byBase' # byBase \/ byNumericId' # byNumericId \/ indexed' # indexed
           \/ badFiles' # badFiles)
          => (pc = "index" /\ pc' = "index" /\ file = NoFile /\ file' = NoFile)]_vars
    /\ [][(pc \notin TaskPositions /\ pc' \in TaskPositions) => pc = "scan"]_vars
    /\ [][pc # "index" => pc' # "index"]_vars

\* C26 witness: a task found its metadata in an index of two records that was
\* built without a failure before the task started
C26_Witness ==
    /\ pc = "resolved"
    /\ indexed = 2
    /\ badFiles = <<>>
    /\ loc.meta.found
    /\ file # NoFile

\* how many steps a task is from its end, and main() from the end of asyncPool
TaskRank(p) ==
    CASE p = "idle" -> 4
      [] p = "running" -> 3
      [] p = "tools" -> 2
      [] p \in {"settled", "rejected"} -> 1
      [] OTHER -> 0

RECURSIVE SumRanks(_)
SumRanks(tpc) == IF tpc = <<>> THEN 0 ELSE TaskRank(Head(tpc)) + SumRanks(Tail(tpc))

PoolRank == (IF pc = "pool" THEN 2 ELSE IF pc = "running" THEN 1 ELSE 0) + SumRanks(taskPc)

\* C27: for every list of tasks, the empty one included, and every limit of
\* at least 1, asyncPool starts each task exactly once (a task is started from
\* idle only and never becomes idle again), its promise resolves only when
\* every task has settled, and it does resolve: until it has, a step of the
\* pool or of a started task is possible, and every such step brings the pool
\* nearer to its end.
C27_PoolStartsOnceAndResolves ==
    /\ [][\A i \in 1..Len(taskPc) :
             Len(taskPc') = Len(taskPc) =>
                 /\ (taskPc'[i] = "running" /\ taskPc[i] # "running") => taskPc[i] = "idle"
                 /\ taskPc[i] # "idle" => taskPc'[i] # "idle"]_vars
    /\ [](pc \in {"dedupe", "report", "done"} =>
             /\ Len(taskPc) = Len(diskFiles)
             /\ \A i \in 1..Len(taskPc) : taskPc[i] = "done")
    /\ [](pc = "running" =>
             /\ limit >= 1
             /\ \E i \in 1..Len(taskPc) :
                    taskPc[i] \in {"running", "tools", "settled", "rejected"})
    /\ [][(pc \in {"pool", "running"}) =>
             (PoolRank' < PoolRank /\ pc' \in {"running", "dedupe"})]_vars

\* C27 witness: asyncPool has resolved for a list of two tasks under limit 1,
\* and it has resolved for the empty list
C27_Witness ==
    /\ pc = "dedupe"
    /\ \/ limit = 1 /\ Len(taskPc) = 2
       \/ limit = 2 /\ Len(taskPc) = 0

\* the tasks whose processor has started its tools and not yet returned
InFlight == {i \in 1..Len(taskPc) : taskPc[i] = "tools"}

\* C28: no two tasks that are in flight at the same time write to the same
\* output path; two files of the same stem and content are never processed
\* into the same output file at the same time.
C28_NoSharedOutputInFlight ==
    \A i, j \in InFlight :
        i # j => /\ OutMain(diskFiles[i]) # OutMain(diskFiles[j])
                 /\ OutThumb(diskFiles[i]) # OutThumb(diskFiles[j])

\* C29: in the organizer script, at every concurrency, no two source files
\* are materialized to the same output path: no materializeFile unlinks or
\* overwrites an output of this run, and no two index records share `out`.
C29_NoSharedOutputPath ==
    /\ \A i \in 1..Len(taskResult) : ~taskResult[i].clobbered
    /\ \A k, h \in 1..Len(items) : k # h => items[k].out # items[h].out

----------------------------------------------------------------------------
(* SpecThumbs: make-thumbs.js from the point where media.json was read and  *)
(* parsed and the thumbnail directory made.  `items` is its array `items`,  *)
(* nextIdx its counter `i`, limit the number of its workers, taskPc the     *)
(* position of each worker and taskResult the index a worker holds; FORCE   *)
(* is --overwrite, outFiles the thumbnail files that exist (none at first)  *)
(* and `out` the array written back to media.json.                         *)

SrcImg == <<"a",".","w","e","b","p">>
SrcVid == <<"c",".","m","p","4">>
SrcTxt == <<"x",".","t","x","t">>
OldThumb == <<"o",".","j","p","g">>

\* crypto md5 of relPath, first 12 hex digits: a fixed table over the model's paths
Md5_12(relPath) ==
    CASE relPath = SrcImg -> <<"0","c","c","1","7","5","b","9","c","0","f","1">>
      [] relPath = SrcVid -> <<"9","0","0","1","5","0","9","8","3","c","d","2">>
      [] OTHER -> <<"4","a","8","a","0","8","f","0","9","d","3","7">>

\* hashName(relPath), below the thumbnail directory, relative to the site root
RelThumb(relSrc) ==
    <<"m","e","d","i","a","/","t","h","u","m","b","s","/">>
    \o stemOf(basename(relSrc)) \o <<".">> \o Md5_12(relSrc) \o DotJpg

\* the two regular expressions of make-thumbs.js
Thumb_isVideo(p) ==
    toLowerCase(extname(p)) \in
        {DotMp4, <<".","m","o","v">>, <<".","m","4","v">>, <<".","w","e","b","m">>,
         <<".","m","k","v">>, <<".","a","v","i">>}
Thumb_isImage(p) ==
    toLowerCase(extname(p)) \in
        {DotJpg, <<".","j","p","e","g">>, <<".","p","n","g">>, <<".","g","i","f">>,
         DotWebp, <<".","b","m","p">>, <<".","t","i","f">>, <<".","t","i","f","f">>}

\* an element of the parsed array: an object with its fields, or null
ThumbItem(kind, id, src, thumb) == [kind |-> kind, id |-> id, src |-> src, thumb |-> thumb]

ThumbItems ==
    { ThumbItem("null", "", <<>>, <<>>),
      ThumbItem("object", "txt", SrcTxt, <<>>),
      ThumbItem("object", "vid", SrcVid, <<>>) }
    \cup {ThumbItem("object", "img", SrcImg, t) : t \in {<<>>, RelThumb(SrcImg), OldThumb}}

ThumbLists == UNION {[1..n -> ThumbItems] : n \in 0..MaxFiles}

\* fsp.access(absSrc), and the first and the second ffmpeg command
ThumbEnv == [readable : BOOLEAN, first : BOOLEAN, second : BOOLEAN]

\* item.thumb = relThumb
SetThumb(item, rel) == [item EXCEPT !.thumb = rel]

\* thumbForItem: the item afterwards, whether `changed` was set, the thumbnail
\* files written; on null the read of item.src throws and the worker's catch
\* swallows it
thumbForItem(item, e, overwrite, files) ==
    LET relSrc == trim(item.src)
        relThumb == RelThumb(relSrc)
        same == [item |-> item, changed |-> FALSE, made |-> {}]
        set == [item |-> SetThumb(item, relThumb), changed |-> TRUE, made |-> {relThumb}]
    IN  IF item.kind = "null" \/ relSrc = <<>> \/ ~e.readable THEN same
        ELSE IF ~overwrite /\ relThumb \in files
        THEN IF item.thumb = relThumb THEN same
             ELSE [item |-> SetThumb(item, relThumb), changed |-> TRUE, made |-> {}]
        ELSE IF Thumb_isImage(relSrc) \/ Thumb_isVideo(relSrc)
        THEN IF e.first \/ e.second THEN set ELSE same
        ELSE same

InitThumbs ==
    /\ pc = "workers"
    /\ items \in ThumbLists
    /\ parsed = items
    /\ thumbCalls = [k \in 1..Len(items) |-> 0]
    /\ changed = FALSE
    /\ nextIdx = 0
    /\ limit \in 1..MaxConcurrency
    /\ taskPc = [w \in 1..limit |-> "loop"]
    /\ taskResult = [w \in 1..limit |-> 0]
    /\ FORCE \in BOOLEAN
    /\ outFiles = {}
    /\ out = <<>>
    /\ file = NoFile /\ loc = IdleTask
    /\ records = <<>> /\ byBase = EmptyMap /\ byNumericId = EmptyMap
    /\ indexed = 0 /\ badFiles = <<>>
    /\ hasFFPROBE = TRUE /\ hasFFMPEG = TRUE
    /\ tree = <<>> /\ diskFiles = <<>> /\ active = 0
    /\ skipLog = <<>> /\ reported = NULL /\ exitCode = NULL /\ runs = <<>>

\* what make-thumbs.js leaves alone
restVars == <<records, byBase, byNumericId, indexed, hasFFPROBE, file, loc,
              diskFiles, limit, active, hasFFMPEG, FORCE, tree, skipLog, reported,
              exitCode, runs, badFiles, parsed>>

\* const idx = i++
TakeIndex_Stale(i) == i

TakeIndex(i) == i + 1

\* a worker at the top of its loop: idx = i++, break past the end, else the
\* call of thumbForItem(items[idx])
WorkerLoop(w) ==
    /\ pc = "workers"
    /\ taskPc[w] = "loop"
    /\ nextIdx' = TakeIndex(nextIdx)
    /\ IF nextIdx >= Len(items)
       THEN /\ taskPc' = [taskPc EXCEPT ![w] = "exit"]
            /\ UNCHANGED <<taskResult, thumbCalls>>
       ELSE /\ taskPc' = [taskPc EXCEPT ![w] = "item"]
            /\ taskResult' = [taskResult EXCEPT ![w] = nextIdx + 1]
            /\ thumbCalls' = [thumbCalls EXCEPT ![nextIdx + 1] = @ + 1]
    /\ UNCHANGED <<pc, restVars, items, out, outFiles, changed>>

\* await thumbForItem(item).catch(()=>{}): the call of a worker returns
WorkerItem(w) ==
    /\ pc = "workers"
    /\ taskPc[w] = "item"
    /\ \E e \in ThumbEnv :
          LET r == thumbForItem(items[taskResult[w]], e, FORCE, outFiles)
          IN  /\ items' = [items EXCEPT ![taskResult[w]] = r.item]
              /\ changed' = (changed \/ r.changed)
              /\ outFiles' = outFiles \cup r.made
    /\ taskPc' = [taskPc EXCEPT ![w] = "loop"]
    /\ UNCHANGED <<pc, restVars, nextIdx, taskResult, out, thumbCalls>>

\* await Promise.all(workers); if (changed) write items back to media.json
ThumbsWrite ==
    /\ pc = "workers"
    /\ \A w \in 1..Len(taskPc) : taskPc[w] = "exit"
    /\ out' = IF changed THEN items ELSE out
    /\ pc' = "done"
    /\ UNCHANGED <<restVars, items, nextIdx, taskPc, taskResult, outFiles, changed,
                   thumbCalls>>

NextThumbs ==
    \/ \E w \in 1..Len(taskPc) : WorkerLoop(w)
    \/ \E w \in 1..Len(taskPc) : WorkerItem(w)
    \/ ThumbsWrite

SpecThumbs == InitThumbs /\ [][NextThumbs]_vars

\* C30: for every parsed media.json and every interleaving of the workers,
\* make-thumbs.js calls thumbForItem once on each item, and the array keeps
\* its items, their order and every field of every item but `thumb`, up to
\* the array it writes back.
C30_ItemsKeptButThumb ==
    /\ Len(items) = Len(parsed)
    /\ \A k \in 1..Len(items) :
          /\ items[k] = [parsed[k] EXCEPT !.thumb = items[k].thumb]
          /\ parsed[k].kind = "null" => items[k] = parsed[k]
          /\ thumbCalls[k] <= 1
    /\ pc = "done" =>
          /\ \A k \in 1..Len(items) : thumbCalls[k] = 1
          /\ changed => out = items
          /\ ~changed => (out = <<>> /\ items = parsed)

\* C30 witness: two workers went through two items; the first got a new
\* thumb, the second was left as it was, and the array was written back
C30_Witness ==
    /\ pc = "done"
    /\ limit = 2
    /\ Len(items) = 2
    /\ changed
    /\ items[1].thumb # parsed[1].thumb
    /\ items[2] = parsed[2]
    /\ out = items

====
